---- MODULE Spec2Model ----
(***************************************************************************)
(* Model of the handlers of the social / marketplace server: the rows of   *)
(* the relational store, the denormalized counters the handlers maintain,  *)
(* and each handler both as one call run to completion and as the          *)
(* sequence of awaited statements it issues against the store.             *)
(***************************************************************************)
EXTENDS Integers, FiniteSets, Sequences, TLC

\* ------------------------------------------------------------------ bounds
MaxUsers == 3
MaxAuthors == 2
MaxFollows == 3
MaxPosts == 3
MaxLikedPosts == 2
MaxLikes == 2
MaxTraders == 2
MaxListings == 1
MaxCatalog == 2
MaxViews == 3
MaxNotifications == 2
MaxCalls == 2
MaxCheckedCalls == 1
NumProcs == 2
MaxRequests == 1
MaxSerialRequests == 2

UserIds == 1..MaxUsers
AuthorIds == 1..MaxAuthors
PostIds == 1..MaxPosts
LikedPostIds == 1..MaxLikedPosts
TraderIds == 1..MaxTraders
ListingIds == 1..MaxListings
CatalogIds == 1..MaxCatalog

\* money in thousandths of a currency unit, so that an amount can fall
\* between two values of a numeric(12, 2) column; amounts exactly 0.01 away
\* from a price are left out: whether they pass depends on binary rounding
Prices == {1000}
Amounts == {1000, 1006, 2000}
Currencies == {"USD", "EUR"}
ListingCurrencies == {"USD"}
PaymentMethods == {"credit_card", "paypal"}
Procs == 1..NumProcs

VARIABLES
  users,         \* usersTable: id -> [display_name, bio, is_verified, follower_count, following_count, post_count]
  follows,       \* followsTable: <<follower_id, following_id>> -> number of rows
  posts,         \* postsTable: id -> [user_id, parent_post_id, like_count, reply_count]
  nextPostId,    \* the posts.id serial
  likes,         \* likesTable: <<user_id, post_id>> -> number of rows
  listings,      \* listingsTable: id -> [user_id, price, currency, is_active, view_count]
  transactions,  \* transactionsTable: sequence of rows, row i has id i
  notifications, \* notificationsTable: sequence of rows, row i has id i
  clock,         \* the store's now(): advances with every createTransaction call
  last,          \* the call that completed last: handler, input, outcome
  scn,           \* the create / duplicate create / delete sequence in progress on one pair
  procs          \* the requests in flight, each at one awaited statement

vars == <<users, follows, posts, nextPostId, likes, listings, transactions,
          notifications, clock, last, scn, procs>>

dbVars == <<users, follows, posts, nextPostId, likes, listings, transactions,
            notifications>>

\* ------------------------------------------------------------- the store
NoError == ""
NoId == 0
NoRow == [id |-> NoId]

Pairs(S, T) == S \X T

RECURSIVE SumOver(_, _)
SumOver(f, S) ==
  IF S = {} THEN 0
  ELSE LET x == CHOOSE y \in S : TRUE IN f[x] + SumOver(f, S \ {x})

\* the number of rows of a table kept as pair -> number of rows
RowCount(t) == SumOver(t, DOMAIN t)

\* a new usersTable row: the profile as registered, is_verified false and the
\* three counters 0 by default
NewUser ==
  [display_name |-> "old", bio |-> "old", is_verified |-> FALSE,
   follower_count |-> 0, following_count |-> 0, post_count |-> 0]

UserExists(us, id) == id \in DOMAIN us

\* the rows a select on followsTable with both ids returns
FollowRows(fs, a, b) == fs[<<a, b>>]

\* db.insert(followsTable): the table has a plain index on the pair, so the
\* insert adds a row whether or not one is there
InsertFollow(fs, a, b) == [fs EXCEPT ![<<a, b>>] = @ + 1]

\* db.delete(followsTable).where(pair): removes every row of the pair
DeleteFollowRows(fs, a, b) == [fs EXCEPT ![<<a, b>>] = 0]

\* UPDATE users SET following_count = following_count + d WHERE id = ...
AddFollowingCount(us, id, d) ==
  IF id \in DOMAIN us THEN [us EXCEPT ![id].following_count = @ + d] ELSE us

\* the follower update written against the wrong column
AddFollowerCountWrongColumn(us, id, d) ==
  IF id \in DOMAIN us THEN [us EXCEPT ![id].following_count = @ + d] ELSE us

\* UPDATE users SET follower_count = follower_count + d WHERE id = ...
AddFollowerCount(us, id, d) ==
  IF id \in DOMAIN us THEN [us EXCEPT ![id].follower_count = @ + d] ELSE us

Err(msg, id) == [msg |-> msg, id |-> id]
Ok == Err(NoError, NoId)

\* --------------------------------------------------------- createFollow
\* the validation of createFollow, in the order of the code
CreateFollowError(us, fs, a, b) ==
  IF a = b THEN Err("Users cannot follow themselves", NoId)
  ELSE LET both == {u \in DOMAIN us : u = a /\ u = b} IN
       IF Cardinality(both) < 2 /\ ~UserExists(us, a)
         THEN Err("User does not exist", a)
       ELSE IF Cardinality(both) < 2 /\ ~UserExists(us, b)
         THEN Err("User does not exist", b)
       ELSE IF FollowRows(fs, a, b) > 0
         THEN Err("Follow relationship already exists", NoId)
       ELSE Ok

\* deleteFollow without its existence check
DeleteFollowErrorNoCheck(fs, a, b) == Ok

\* the validation of deleteFollow
DeleteFollowError(fs, a, b) ==
  IF FollowRows(fs, a, b) = 0
    THEN Err("Follow relationship does not exist", NoId)
    ELSE Ok

\* ------------------------------------------------ listings, transactions
\* number.toString() stored in a numeric(12, 2) column: the store rounds to
\* hundredths, half away from zero; the result in hundredths
ToNumeric(mills) == (mills + 5) \div 10

\* parseFloat of a numeric(12, 2) column, in thousandths
ParseFloat(cents) == cents * 10

Abs(x) == IF x < 0 THEN -x ELSE x

\* Math.abs(input.amount - listingPrice) > 0.01
Tolerance == 10

\* a new listingsTable row: is_active defaults to true, view_count to 0
NewListing(user_id, price, currency) ==
  [user_id |-> user_id, title |-> "old", price |-> ToNumeric(price),
   currency |-> currency, location |-> "here", is_active |-> TRUE,
   view_count |-> 0, updated_at |-> clock]

ListingExists(lst, id) == id \in DOMAIN lst

\* db.insert(listingsTable)
InsertListing(lst, id, user_id, price, currency) ==
  [l \in DOMAIN lst \cup {id} |->
     IF l = id THEN NewListing(user_id, price, currency) ELSE lst[l]]

\* an update that flips is_active instead of clearing it
ToggleActive(lst, id) ==
  IF id \in DOMAIN lst
    THEN [lst EXCEPT ![id].is_active = ~@, ![id].updated_at = clock]
    ELSE lst

\* db.update(listingsTable).set({is_active: false}).where(id)
SetInactive(lst, id) ==
  IF id \in DOMAIN lst
    THEN [lst EXCEPT ![id].is_active = FALSE, ![id].updated_at = clock]
    ELSE lst

\* a nullable column set to null
Null == "null"

\* the fields updateListing copies when they are not undefined; description
\* and condition are copied as title is, media_urls as location is
ListingFields == {"title", "price", "location", "is_active"}

\* an update that writes every field, present or not
UpdateDataEveryField(row, input, now) ==
  [row EXCEPT !.updated_at = now, !.title = input.title,
              !.price = ToNumeric(input.price), !.location = input.location,
              !.is_active = input.is_active]

\* updateData: updated_at and the fields present in the input
UpdateData(row, input, now) ==
  [row EXCEPT
     !.updated_at = now,
     !.title = IF "title" \in input.present THEN input.title ELSE @,
     !.price = IF "price" \in input.present THEN ToNumeric(input.price) ELSE @,
     !.location = IF "location" \in input.present THEN input.location ELSE @,
     !.is_active = IF "is_active" \in input.present THEN input.is_active ELSE @]

\* db.update(listingsTable).set(updateData).where(id)
UpdateListingRow(lst, input, now) ==
  IF input.id \in DOMAIN lst
    THEN [lst EXCEPT ![input.id] = UpdateData(lst[input.id], input, now)]
    ELSE lst

\* the requests drawn for updateListing: at most two fields present, the
\* location, when present, being an explicit null; a field that is absent
\* carries a filler the handler never reads
UpdateListingInputs ==
  {input \in [id : CatalogIds, present : SUBSET ListingFields,
              title : {"new"}, price : {2000}, location : {Null},
              is_active : BOOLEAN] :
     /\ Cardinality(input.present) <= 2
     /\ "is_active" \notin input.present => input.is_active = FALSE}

\* the increment applied to every listing
AddViewCountEveryListing(lst, id) ==
  [l \in DOMAIN lst |-> [lst[l] EXCEPT !.view_count = @ + 1]]

\* update listings set view_count = view_count + 1, updated_at where id
AddViewCount(lst, id) ==
  IF id \in DOMAIN lst
    THEN [lst EXCEPT ![id].view_count = @ + 1, ![id].updated_at = clock]
    ELSE lst

\* what the listing handlers hand back: the row with price as a number
ListingResult(lst, id) == [lst[id] EXCEPT !.price = ParseFloat(lst[id].price)]

\* the row checks without the comparison of the seller with the owner
CreateTransactionRowChecksNoOwner(listing, input) ==
  IF input.buyer_id = input.seller_id
    THEN Err("Buyer and seller cannot be the same user", NoId)
  ELSE IF Abs(input.amount - ParseFloat(listing.price)) > Tolerance
    THEN Err("Transaction amount must match listing price", NoId)
  ELSE IF input.currency # listing.currency
    THEN Err("Transaction currency must match listing currency", NoId)
  ELSE Ok

\* the checks createTransaction makes on the listing row it read, after the
\* three selects
CreateTransactionRowChecks(listing, input) ==
  IF input.buyer_id = input.seller_id
    THEN Err("Buyer and seller cannot be the same user", NoId)
  ELSE IF listing.user_id # input.seller_id
    THEN Err("Seller must be the owner of the listing", NoId)
  ELSE IF Abs(input.amount - ParseFloat(listing.price)) > Tolerance
    THEN Err("Transaction amount must match listing price", NoId)
  ELSE IF input.currency # listing.currency
    THEN Err("Transaction currency must match listing currency", NoId)
  ELSE Ok

\* the same checks with the two role checks ahead of the existence checks
CreateTransactionErrorRolesFirst(us, lst, input) ==
  IF input.buyer_id = input.seller_id
    THEN Err("Buyer and seller cannot be the same user", NoId)
  ELSE IF ~ListingExists(lst, input.listing_id)
    THEN Err("Listing not found", input.listing_id)
  ELSE IF ~lst[input.listing_id].is_active
    THEN Err("Listing is not active", input.listing_id)
  ELSE IF ~UserExists(us, input.buyer_id)
    THEN Err("Buyer not found", input.buyer_id)
  ELSE IF ~UserExists(us, input.seller_id)
    THEN Err("Seller not found", input.seller_id)
  ELSE CreateTransactionRowChecks(lst[input.listing_id], input)

\* the validation of createTransaction, in the order of the code
CreateTransactionError(us, lst, input) ==
  IF ~ListingExists(lst, input.listing_id)
    THEN Err("Listing not found", input.listing_id)
  ELSE IF ~lst[input.listing_id].is_active
    THEN Err("Listing is not active", input.listing_id)
  ELSE IF ~UserExists(us, input.buyer_id)
    THEN Err("Buyer not found", input.buyer_id)
  ELSE IF ~UserExists(us, input.seller_id)
    THEN Err("Seller not found", input.seller_id)
  ELSE CreateTransactionRowChecks(lst[input.listing_id], input)

\* the lookup with the wrong status literal
PendingForWrongStatus(txs, listing_id, buyer_id) ==
  {i \in DOMAIN txs : /\ txs[i].listing_id = listing_id
                      /\ txs[i].buyer_id = buyer_id
                      /\ txs[i].status = "completed"}

\* select from transactionsTable where listing_id, buyer_id, status =
\* 'pending': the ids of the rows found
PendingFor(txs, listing_id, buyer_id) ==
  {i \in DOMAIN txs : /\ txs[i].listing_id = listing_id
                      /\ txs[i].buyer_id = buyer_id
                      /\ txs[i].status = "pending"}

\* the row createTransaction inserts; the id serial and created_at come from
\* the store
NewTransaction(id, input, now) ==
  [id |-> id, listing_id |-> input.listing_id, buyer_id |-> input.buyer_id,
   seller_id |-> input.seller_id, amount |-> ToNumeric(input.amount),
   currency |-> input.currency, status |-> "pending",
   payment_method |-> input.payment_method, created_at |-> now]

\* db.insert(transactionsTable)
InsertTransaction(txs, input, now) ==
  Append(txs, NewTransaction(Len(txs) + 1, input, now))

\* the row handed back with amount left as the store's string
TransactionResultUnparsed(row) == row

\* what createTransaction hands back: the row with amount as a number
TransactionResult(row) == [row EXCEPT !.amount = ParseFloat(row.amount)]

\* the requests drawn to exercise the checks
TransactionInputs ==
  [listing_id : ListingIds, buyer_id : TraderIds, seller_id : TraderIds,
   amount : Amounts, currency : Currencies, payment_method : {"credit_card"}]

\* the requests drawn to exercise the repeated request
RetryInputs ==
  [listing_id : ListingIds, buyer_id : TraderIds, seller_id : TraderIds,
   amount : Prices, currency : ListingCurrencies,
   payment_method : PaymentMethods]

\* what identifies a repeated request: everything but payment_method
TransactionKey(input) ==
  <<input.listing_id, input.buyer_id, input.seller_id, input.amount,
    input.currency>>

\* ---------------------------------------------------- posts and likes
\* a new postsTable row: like_count and reply_count default to 0
NewPost(user_id, parent_post_id) ==
  [user_id |-> user_id, parent_post_id |-> parent_post_id, content |-> "old",
   is_pinned |-> FALSE, like_count |-> 0, reply_count |-> 0,
   updated_at |-> clock]

PostFields == {"content", "is_pinned"}

\* updateValues: updated_at and the fields present in the input
UpdateValues(row, input, now) ==
  [row EXCEPT
     !.updated_at = now,
     !.content = IF "content" \in input.present THEN input.content ELSE @,
     !.is_pinned = IF "is_pinned" \in input.present THEN input.is_pinned ELSE @]

\* db.update(postsTable).set(updateValues).where(id)
UpdatePostRow(ps, input, now) ==
  IF input.id \in DOMAIN ps
    THEN [ps EXCEPT ![input.id] = UpdateValues(ps[input.id], input, now)]
    ELSE ps

\* the requests drawn for updatePost
UpdatePostInputs ==
  {input \in [id : PostIds, present : SUBSET PostFields, content : {"new"},
              is_pinned : BOOLEAN] :
     "is_pinned" \notin input.present => input.is_pinned = FALSE}

PostExists(ps, id) == id \in DOMAIN ps

\* db.insert(postsTable): the row takes the next value of the id serial
InsertPost(ps, id, user_id, parent_post_id) ==
  [q \in DOMAIN ps \cup {id} |->
     IF q = id THEN NewPost(user_id, parent_post_id) ELSE ps[q]]

\* db.delete(postsTable).where(id)
DeletePostRow(ps, id) == [q \in DOMAIN ps \ {id} |-> ps[q]]

\* the count without its where clause
CountPostsOfAnyUser(ps, u) == Cardinality(DOMAIN ps)

\* select count(posts.id) where user_id = u
CountPostsOf(ps, u) == Cardinality({q \in DOMAIN ps : ps[q].user_id = u})

\* the posts whose parent_post_id is id
RepliesTo(ps, id) == {q \in DOMAIN ps : ps[q].parent_post_id = id}

\* db.update(usersTable).set({post_count: n}).where(id)
SetPostCount(us, id, n) ==
  IF id \in DOMAIN us THEN [us EXCEPT ![id].post_count = n] ELSE us

\* the reply_count update without its where clause
SetReplyCountEveryPost(ps, id, n) == [q \in DOMAIN ps |-> [ps[q] EXCEPT !.reply_count = n]]

\* db.update(postsTable).set({reply_count: n}).where(id)
SetReplyCount(ps, id, n) ==
  IF id \in DOMAIN ps
    THEN [ps EXCEPT ![id].reply_count = n, ![id].updated_at = clock]
    ELSE ps

\* the like_count update without its where clause
AddLikeCountEveryPost(ps, id, d) ==
  [q \in DOMAIN ps |-> [ps[q] EXCEPT !.like_count = @ + d]]

\* update posts set like_count = like_count + d where id
AddLikeCount(ps, id, d) ==
  IF id \in DOMAIN ps THEN [ps EXCEPT ![id].like_count = @ + d] ELSE ps

LikeRows(ls, u, q) == ls[<<u, q>>]

\* tx.insert(likesTable): the table has a plain index on the pair
InsertLike(ls, u, q) == [ls EXCEPT ![<<u, q>>] = @ + 1]

\* tx.delete(likesTable).where(pair): removes every row of the pair
DeleteLikeRows(ls, u, q) == [ls EXCEPT ![<<u, q>>] = 0]

\* the Like rows whose post_id is q
LikesOfPost(ls, q) == SumOver([u \in UserIds |-> ls[<<u, q>>]], UserIds)

\* the validation of createPost, in the order of the code; a null
\* parent_post_id is NoId
CreatePostError(us, ps, user_id, parent_post_id) ==
  IF ~UserExists(us, user_id) THEN Err("User not found", NoId)
  ELSE IF parent_post_id # NoId /\ ~PostExists(ps, parent_post_id)
    THEN Err("Parent post not found", NoId)
  ELSE Ok

\* the foreign keys of postsTable.parent_post_id and likesTable.post_id carry
\* no ON DELETE action: the store refuses to delete a post they refer to
PostIsReferenced(ps, ls, id) ==
  RepliesTo(ps, id) # {} \/ LikesOfPost(ls, id) > 0

\* what stops deletePost: its own check, then the store's foreign keys
DeletePostError(ps, ls, id) ==
  IF ~PostExists(ps, id) THEN Err("Post not found", NoId)
  ELSE IF PostIsReferenced(ps, ls, id) THEN Err("foreign key violation", NoId)
  ELSE Ok

\* createLike without its duplicate check
CreateLikeErrorNoDuplicateCheck(us, ps, ls, u, q) ==
  IF ~UserExists(us, u) THEN Err("User not found", NoId)
  ELSE IF ~PostExists(ps, q) THEN Err("Post not found", NoId)
  ELSE Ok

\* the validation of createLike, in the order of the code
CreateLikeError(us, ps, ls, u, q) ==
  IF ~UserExists(us, u) THEN Err("User not found", NoId)
  ELSE IF ~PostExists(ps, q) THEN Err("Post not found", NoId)
  ELSE IF LikeRows(ls, u, q) > 0 THEN Err("Like already exists", NoId)
  ELSE Ok

\* the validation of deleteLike
DeleteLikeError(ls, u, q) ==
  IF LikeRows(ls, u, q) = 0 THEN Err("Like not found", NoId) ELSE Ok

\* ------------------------------------------------------- call bookkeeping
Db == [users |-> users, follows |-> follows, posts |-> posts, likes |-> likes,
       listings |-> listings, transactions |-> transactions,
       notifications |-> notifications]

NoScn == [stage |-> 0, kind |-> "", key |-> <<>>, snap |-> <<>>, ret |-> NoRow,
          dup |-> FALSE]

\* a create that succeeded opens a sequence on its key (stage 1); the same
\* create repeated right after is stage 2; the matching delete is stage 3 and
\* a further one stage 4; any other call closes the sequence
NextScn(kind, isCreate, key, err, ret) ==
  IF scn.stage \in {1, 2} /\ scn.kind = kind /\ scn.key = key /\ isCreate
    THEN [scn EXCEPT !.stage = 2, !.dup = TRUE]
  ELSE IF scn.stage \in {1, 2} /\ scn.kind = kind /\ scn.key = key /\ ~isCreate
    THEN [scn EXCEPT !.stage = 3]
  ELSE IF scn.stage = 3 /\ scn.kind = kind /\ scn.key = key /\ ~isCreate
    THEN [scn EXCEPT !.stage = 4]
  ELSE IF isCreate /\ err = Ok
    THEN [stage |-> 1, kind |-> kind, key |-> key, snap |-> Db, ret |-> ret,
          dup |-> FALSE]
  ELSE NoScn

\* a call returns to its caller: what it was, what it got, what it left
Returns(op, args, err, ret) ==
  last' = [op |-> op, args |-> args, err |-> err, ret |-> ret, pre |-> Db]

Idle == \A p \in Procs : procs[p].pc = "idle"

\* ------------------------------------------------------------ createUser
CreateUser(limit) ==
  /\ Idle
  /\ Cardinality(DOMAIN users) < limit
  /\ LET id == Cardinality(DOMAIN users) + 1 IN
       /\ users' = [u \in DOMAIN users \cup {id} |->
                      IF u = id THEN NewUser ELSE users[u]]
       /\ Returns("createUser", <<id>>, Ok, NoRow)
  /\ scn' = NoScn
  /\ UNCHANGED <<follows, posts, nextPostId, likes, listings, transactions, notifications,
                 clock, procs>>

\* ---------------------------------------------- createFollow, deleteFollow
\* createFollow run to completion
CreateFollow(a, b) ==
  /\ Idle
  /\ LET err == CreateFollowError(users, follows, a, b) IN
       /\ err = Ok => RowCount(follows) < MaxFollows
       /\ IF err = Ok
            THEN /\ follows' = InsertFollow(follows, a, b)
                 /\ users' = AddFollowerCount(AddFollowingCount(users, a, 1), b, 1)
            ELSE UNCHANGED <<follows, users>>
       /\ Returns("createFollow", <<a, b>>, err, NoRow)
       /\ scn' = NextScn("follow", TRUE, <<a, b>>, err, NoRow)
  /\ UNCHANGED <<posts, nextPostId, likes, listings, transactions, notifications, clock, procs>>

\* deleteFollow run to completion
DeleteFollow(a, b) ==
  /\ Idle
  /\ LET err == DeleteFollowError(follows, a, b) IN
       /\ IF err = Ok
            THEN /\ follows' = DeleteFollowRows(follows, a, b)
                 /\ users' = AddFollowerCount(AddFollowingCount(users, a, -1), b, -1)
            ELSE UNCHANGED <<follows, users>>
       /\ Returns("deleteFollow", <<a, b>>, err, NoRow)
       /\ scn' = NextScn("follow", FALSE, <<a, b>>, err, NoRow)
  /\ UNCHANGED <<posts, nextPostId, likes, listings, transactions, notifications, clock, procs>>

\* ------------------------------------------------- createPost, deletePost
\* createPost run to completion: the insert, then post_count written from the
\* user row read at the start, then reply_count written from a fresh read of
\* the parent
CreatePost(user_id, parent_post_id) ==
  /\ Idle
  /\ LET err == CreatePostError(users, posts, user_id, parent_post_id)
         id == nextPostId
         inserted == InsertPost(posts, id, user_id, parent_post_id)
     IN
       /\ err = Ok => nextPostId <= MaxPosts
       /\ IF err = Ok
            THEN /\ nextPostId' = nextPostId + 1
                 /\ users' = SetPostCount(users, user_id,
                                          users[user_id].post_count + 1)
                 /\ posts' = IF parent_post_id # NoId
                               THEN SetReplyCount(inserted, parent_post_id,
                                      inserted[parent_post_id].reply_count + 1)
                               ELSE inserted
            ELSE UNCHANGED <<nextPostId, users, posts>>
       /\ Returns("createPost", <<user_id, parent_post_id>>, err,
                  IF err = Ok THEN [id |-> id] ELSE NoRow)
  /\ scn' = NoScn
  /\ UNCHANGED <<follows, likes, listings, transactions, notifications, clock, procs>>

\* deletePost run to completion: the delete, then the owner's post_count
\* recomputed by counting the owner's remaining posts
DeletePost(id) ==
  /\ Idle
  /\ LET err == DeletePostError(posts, likes, id) IN
       /\ IF err = Ok
            THEN LET owner == posts[id].user_id
                     remaining == DeletePostRow(posts, id)
                 IN /\ posts' = remaining
                    /\ users' = SetPostCount(users, owner,
                                             CountPostsOf(remaining, owner))
            ELSE UNCHANGED <<posts, users>>
       /\ Returns("deletePost", <<id>>, err, NoRow)
  /\ scn' = NoScn
  /\ UNCHANGED <<follows, nextPostId, likes, listings, transactions, notifications, clock, procs>>

\* --------------------------------------------------- createLike, deleteLike
\* createLike run to completion: the insert and the like_count increment are
\* one store transaction
CreateLike(u, q) ==
  /\ Idle
  /\ LET err == CreateLikeError(users, posts, likes, u, q) IN
       /\ err = Ok => RowCount(likes) < MaxLikes
       /\ IF err = Ok
            THEN /\ likes' = InsertLike(likes, u, q)
                 /\ posts' = AddLikeCount(posts, q, 1)
            ELSE UNCHANGED <<likes, posts>>
       /\ Returns("createLike", <<u, q>>, err, NoRow)
       /\ scn' = NextScn("like", TRUE, <<u, q>>, err, NoRow)
  /\ UNCHANGED <<users, follows, nextPostId, listings, transactions, notifications, clock, procs>>

\* deleteLike run to completion
DeleteLike(u, q) ==
  /\ Idle
  /\ LET err == DeleteLikeError(likes, u, q) IN
       /\ IF err = Ok
            THEN /\ likes' = DeleteLikeRows(likes, u, q)
                 /\ posts' = AddLikeCount(posts, q, -1)
            ELSE UNCHANGED <<likes, posts>>
       /\ Returns("deleteLike", <<u, q>>, err, NoRow)
       /\ scn' = NextScn("like", FALSE, <<u, q>>, err, NoRow)
  /\ UNCHANGED <<users, follows, nextPostId, listings, transactions, notifications, clock, procs>>

\* ------------------------------------ createListing, deactivateListing
\* createListing run to completion, while the table holds fewer than limit rows
CreateListingUpTo(limit, user_id, price, currency) ==
  /\ Idle
  /\ LET err == IF UserExists(users, user_id) THEN Ok
                ELSE Err("User does not exist", user_id)
         id == Cardinality(DOMAIN listings) + 1
     IN
       /\ err = Ok => id <= limit
       /\ listings' = IF err = Ok
                        THEN InsertListing(listings, id, user_id, price, currency)
                        ELSE listings
       /\ Returns("createListing", <<user_id, price, currency>>, err,
                  IF err = Ok THEN [id |-> id] ELSE NoRow)
  /\ scn' = NoScn
  /\ UNCHANGED <<users, follows, posts, nextPostId, likes, transactions, notifications,
                 clock, procs>>

CreateListing(user_id, price, currency) ==
  CreateListingUpTo(MaxListings, user_id, price, currency)

\* deactivateListing run to completion
DeactivateListing(id) ==
  /\ Idle
  /\ LET err == IF ListingExists(listings, id) THEN Ok
                ELSE Err("Listing not found", id)
     IN
       /\ listings' = IF err = Ok THEN SetInactive(listings, id) ELSE listings
       /\ Returns("deactivateListing", <<id>>, err, NoRow)
  /\ scn' = NoScn
  /\ UNCHANGED <<users, follows, posts, nextPostId, likes, transactions, notifications,
                 clock, procs>>

\* ------------------------------------------------------ createTransaction
\* a createTransaction that looks up the pending row before it validates
CreateTransactionLookupFirst(input) ==
  /\ Idle
  /\ clock' = clock + 1
  /\ LET err == CreateTransactionError(users, listings, input)
         found == PendingFor(transactions, input.listing_id, input.buyer_id)
     IN
       IF found # {}
         THEN \E i \in found :
                /\ UNCHANGED transactions
                /\ Returns("createTransaction", input, Ok,
                           TransactionResult(transactions[i]))
                /\ scn' = NextScn("txn", TRUE, TransactionKey(input), Ok,
                                  TransactionResult(transactions[i]))
       ELSE IF err # Ok
         THEN /\ UNCHANGED transactions
              /\ Returns("createTransaction", input, err, NoRow)
              /\ scn' = NextScn("txn", TRUE, TransactionKey(input), err, NoRow)
       ELSE /\ transactions' = InsertTransaction(transactions, input, clock')
            /\ Returns("createTransaction", input, Ok,
                       TransactionResult(transactions'[Len(transactions')]))
            /\ scn' = NextScn("txn", TRUE, TransactionKey(input), Ok,
                              TransactionResult(transactions'[Len(transactions')]))
  /\ UNCHANGED <<users, follows, posts, nextPostId, likes, listings,
                 notifications, procs>>

\* createTransaction run to completion: the checks, the lookup of a pending
\* row of the listing and buyer (the first row of a select without an order),
\* and the insert when there is none
CreateTransaction(input) ==
  /\ Idle
  /\ clock' = clock + 1
  /\ LET err == CreateTransactionError(users, listings, input)
         found == PendingFor(transactions, input.listing_id, input.buyer_id)
     IN
       IF err # Ok
         THEN /\ UNCHANGED transactions
              /\ Returns("createTransaction", input, err, NoRow)
              /\ scn' = NextScn("txn", TRUE, TransactionKey(input), err, NoRow)
       ELSE IF found # {}
         THEN \E i \in found :
                /\ UNCHANGED transactions
                /\ Returns("createTransaction", input, Ok,
                           TransactionResult(transactions[i]))
                /\ scn' = NextScn("txn", TRUE, TransactionKey(input), Ok,
                                  TransactionResult(transactions[i]))
       ELSE /\ transactions' = InsertTransaction(transactions, input, clock')
            /\ Returns("createTransaction", input, Ok,
                       TransactionResult(transactions'[Len(transactions')]))
            /\ scn' = NextScn("txn", TRUE, TransactionKey(input), Ok,
                              TransactionResult(transactions'[Len(transactions')]))
  /\ UNCHANGED <<users, follows, posts, nextPostId, likes, listings,
                 notifications, procs>>

\* ------------------------------------------------- requests in flight
\* A request in flight is a handler stopped at one of its awaits: pc names
\* the statement it issues next, loc holds what its earlier statements
\* returned. Every statement is one step against the store, so the
\* statements of two requests interleave.
IdleProc == [pc |-> "idle", op |-> "", args |-> <<>>, loc |-> <<>>,
             calls |-> 0, err |-> Ok, pre |-> <<>>]

NoCall == [op |-> "", args |-> <<>>, err |-> Ok, ret |-> NoRow, pre |-> <<>>]

\* a request arrives at p
Call(p, op, args, pc) ==
  /\ procs[p].pc = "idle"
  /\ procs' = [procs EXCEPT ![p] = [pc |-> pc, op |-> op, args |-> args,
                                    loc |-> <<>>, calls |-> @.calls + 1,
                                    err |-> Ok, pre |-> Db]]
  /\ last' = NoCall
  /\ scn' = NoScn

At(p, op, pc) == procs[p].op = op /\ procs[p].pc = pc

\* the request of p goes on to its next statement, keeping what it read
Goto(p, pc, loc) == procs' = [procs EXCEPT ![p].pc = pc, ![p].loc = loc]

\* the request of p throws, or returns
Finish(p, err) ==
  procs' = [procs EXCEPT ![p].pc = "idle", ![p].loc = <<>>, ![p].err = err]

\* -------------------------------------- createFollow, statement by statement
\* the call and the check made before the first await
CreateFollowCall(p, a, b) ==
  /\ Call(p, "createFollow", <<a, b>>,
          IF a = b THEN "throwSelf" ELSE "selectUsers")
  /\ UNCHANGED <<dbVars, clock>>

\* a createFollow that inserts its row before it refuses the self-follow
CreateFollowInsertThenThrowSelf(p) ==
  /\ At(p, "createFollow", "throwSelf")
  /\ follows' = InsertFollow(follows, procs[p].args[1], procs[p].args[2])
  /\ Finish(p, Err("Users cannot follow themselves", NoId))
  /\ UNCHANGED <<users, posts, nextPostId, likes, listings, transactions,
                 notifications, clock, last, scn>>

CreateFollowThrowSelf(p) ==
  /\ At(p, "createFollow", "throwSelf")
  /\ Finish(p, Err("Users cannot follow themselves", NoId))
  /\ UNCHANGED <<dbVars, clock, last, scn>>

\* select id from users where id = follower_id and id = following_id
CreateFollowSelectUsers(p) ==
  /\ At(p, "createFollow", "selectUsers")
  /\ LET a == procs[p].args[1]
         b == procs[p].args[2]
         both == {u \in DOMAIN users : u = a /\ u = b}
     IN Goto(p, IF Cardinality(both) < 2 THEN "selectFollower"
                ELSE "selectExisting", <<>>)
  /\ UNCHANGED <<dbVars, clock, last, scn>>

CreateFollowSelectFollower(p) ==
  /\ At(p, "createFollow", "selectFollower")
  /\ Goto(p, "selectFollowing",
          [followerExists |-> UserExists(users, procs[p].args[1])])
  /\ UNCHANGED <<dbVars, clock, last, scn>>

\* a createFollow that reports the followed user before the follower
CreateFollowSelectFollowingReportedFirst(p) ==
  /\ At(p, "createFollow", "selectFollowing")
  /\ LET a == procs[p].args[1]
         b == procs[p].args[2]
     IN IF ~UserExists(users, b)
          THEN Finish(p, Err("User does not exist", b))
        ELSE IF ~procs[p].loc.followerExists
          THEN Finish(p, Err("User does not exist", a))
        ELSE Goto(p, "selectExisting", <<>>)
  /\ UNCHANGED <<dbVars, clock, last, scn>>

CreateFollowSelectFollowing(p) ==
  /\ At(p, "createFollow", "selectFollowing")
  /\ LET a == procs[p].args[1]
         b == procs[p].args[2]
     IN IF ~procs[p].loc.followerExists
          THEN Finish(p, Err("User does not exist", a))
        ELSE IF ~UserExists(users, b)
          THEN Finish(p, Err("User does not exist", b))
        ELSE Goto(p, "selectExisting", <<>>)
  /\ UNCHANGED <<dbVars, clock, last, scn>>

CreateFollowSelectExisting(p) ==
  /\ At(p, "createFollow", "selectExisting")
  /\ IF FollowRows(follows, procs[p].args[1], procs[p].args[2]) > 0
       THEN Finish(p, Err("Follow relationship already exists", NoId))
       ELSE Goto(p, "insert", <<>>)
  /\ UNCHANGED <<dbVars, clock, last, scn>>

CreateFollowInsert(p) ==
  /\ At(p, "createFollow", "insert")
  /\ follows' = InsertFollow(follows, procs[p].args[1], procs[p].args[2])
  /\ Goto(p, "updateFollowing", <<>>)
  /\ UNCHANGED <<users, posts, nextPostId, likes, listings, transactions, notifications,
                 clock, last, scn>>

CreateFollowUpdateFollowing(p) ==
  /\ At(p, "createFollow", "updateFollowing")
  /\ users' = AddFollowingCount(users, procs[p].args[1], 1)
  /\ Goto(p, "updateFollower", <<>>)
  /\ UNCHANGED <<follows, posts, nextPostId, likes, listings, transactions, notifications,
                 clock, last, scn>>

CreateFollowUpdateFollower(p) ==
  /\ At(p, "createFollow", "updateFollower")
  /\ users' = AddFollowerCount(users, procs[p].args[2], 1)
  /\ Finish(p, Ok)
  /\ UNCHANGED <<follows, posts, nextPostId, likes, listings, transactions, notifications,
                 clock, last, scn>>

\* ---------------------------------------- createLike, statement by statement
CreateLikeCall(p, u, q) ==
  /\ Call(p, "createLike", <<u, q>>, "selectUser")
  /\ UNCHANGED <<dbVars, clock>>

CreateLikeSelectUser(p) ==
  /\ At(p, "createLike", "selectUser")
  /\ IF ~UserExists(users, procs[p].args[1])
       THEN Finish(p, Err("User not found", NoId))
       ELSE Goto(p, "selectPost", <<>>)
  /\ UNCHANGED <<dbVars, clock, last, scn>>

CreateLikeSelectPost(p) ==
  /\ At(p, "createLike", "selectPost")
  /\ IF ~PostExists(posts, procs[p].args[2])
       THEN Finish(p, Err("Post not found", NoId))
       ELSE Goto(p, "selectExisting", <<>>)
  /\ UNCHANGED <<dbVars, clock, last, scn>>

CreateLikeSelectExisting(p) ==
  /\ At(p, "createLike", "selectExisting")
  /\ IF LikeRows(likes, procs[p].args[1], procs[p].args[2]) > 0
       THEN Finish(p, Err("Like already exists", NoId))
       ELSE Goto(p, "transaction", <<>>)
  /\ UNCHANGED <<dbVars, clock, last, scn>>

\* db.transaction: the insert and the like_count update commit together; the
\* store refuses a post_id that refers to no post
CreateLikeTransaction(p) ==
  /\ At(p, "createLike", "transaction")
  /\ IF ~PostExists(posts, procs[p].args[2])
       THEN /\ Finish(p, Err("foreign key violation", NoId))
            /\ UNCHANGED <<likes, posts>>
       ELSE /\ likes' = InsertLike(likes, procs[p].args[1], procs[p].args[2])
            /\ posts' = AddLikeCount(posts, procs[p].args[2], 1)
            /\ Finish(p, Ok)
  /\ UNCHANGED <<users, follows, nextPostId, listings, transactions, notifications, clock,
                 last, scn>>

\* ---------------------------------- createTransaction, statement by statement
CreateTransactionCall(p, input) ==
  /\ Call(p, "createTransaction", input, "selectListing")
  /\ clock' = clock + 1
  /\ UNCHANGED dbVars

CreateTransactionSelectListing(p) ==
  /\ At(p, "createTransaction", "selectListing")
  /\ LET input == procs[p].args IN
       IF ~ListingExists(listings, input.listing_id)
         THEN Finish(p, Err("Listing not found", input.listing_id))
       ELSE IF ~listings[input.listing_id].is_active
         THEN Finish(p, Err("Listing is not active", input.listing_id))
       ELSE Goto(p, "selectBuyer", [listing |-> listings[input.listing_id]])
  /\ UNCHANGED <<dbVars, clock, last, scn>>

CreateTransactionSelectBuyer(p) ==
  /\ At(p, "createTransaction", "selectBuyer")
  /\ IF ~UserExists(users, procs[p].args.buyer_id)
       THEN Finish(p, Err("Buyer not found", procs[p].args.buyer_id))
       ELSE Goto(p, "selectSeller", procs[p].loc)
  /\ UNCHANGED <<dbVars, clock, last, scn>>

\* the select of the seller and the four checks made on what was read
CreateTransactionSelectSeller(p) ==
  /\ At(p, "createTransaction", "selectSeller")
  /\ LET input == procs[p].args
         err == CreateTransactionRowChecks(procs[p].loc.listing, input)
     IN IF ~UserExists(users, input.seller_id)
          THEN Finish(p, Err("Seller not found", input.seller_id))
        ELSE IF err # Ok THEN Finish(p, err)
        ELSE Goto(p, "selectPending", <<>>)
  /\ UNCHANGED <<dbVars, clock, last, scn>>

CreateTransactionSelectPending(p) ==
  /\ At(p, "createTransaction", "selectPending")
  /\ IF PendingFor(transactions, procs[p].args.listing_id,
                   procs[p].args.buyer_id) # {}
       THEN Finish(p, Ok)
       ELSE Goto(p, "insert", <<>>)
  /\ UNCHANGED <<dbVars, clock, last, scn>>

CreateTransactionInsert(p) ==
  /\ At(p, "createTransaction", "insert")
  /\ transactions' = InsertTransaction(transactions, procs[p].args, clock)
  /\ Finish(p, Ok)
  /\ UNCHANGED <<users, follows, posts, nextPostId, likes, listings,
                 notifications, clock, last, scn>>

\* ---------------------------------------- deleteFollow, statement by statement
DeleteFollowCall(p, a, b) ==
  /\ Call(p, "deleteFollow", <<a, b>>, "selectExisting")
  /\ UNCHANGED <<dbVars, clock>>

DeleteFollowSelectExisting(p) ==
  /\ At(p, "deleteFollow", "selectExisting")
  /\ IF FollowRows(follows, procs[p].args[1], procs[p].args[2]) = 0
       THEN Finish(p, Err("Follow relationship does not exist", NoId))
       ELSE Goto(p, "delete", <<>>)
  /\ UNCHANGED <<dbVars, clock, last, scn>>

DeleteFollowDelete(p) ==
  /\ At(p, "deleteFollow", "delete")
  /\ follows' = DeleteFollowRows(follows, procs[p].args[1], procs[p].args[2])
  /\ Goto(p, "updateFollowing", <<>>)
  /\ UNCHANGED <<users, posts, nextPostId, likes, listings, transactions, notifications,
                 clock, last, scn>>

DeleteFollowUpdateFollowing(p) ==
  /\ At(p, "deleteFollow", "updateFollowing")
  /\ users' = AddFollowingCount(users, procs[p].args[1], -1)
  /\ Goto(p, "updateFollower", <<>>)
  /\ UNCHANGED <<follows, posts, nextPostId, likes, listings, transactions, notifications,
                 clock, last, scn>>

DeleteFollowUpdateFollower(p) ==
  /\ At(p, "deleteFollow", "updateFollower")
  /\ users' = AddFollowerCount(users, procs[p].args[2], -1)
  /\ Finish(p, Ok)
  /\ UNCHANGED <<follows, posts, nextPostId, likes, listings, transactions, notifications,
                 clock, last, scn>>

\* ---------------------------------------- deleteLike, statement by statement
DeleteLikeCall(p, u, q) ==
  /\ Call(p, "deleteLike", <<u, q>>, "selectExisting")
  /\ UNCHANGED <<dbVars, clock>>

DeleteLikeSelectExisting(p) ==
  /\ At(p, "deleteLike", "selectExisting")
  /\ IF LikeRows(likes, procs[p].args[1], procs[p].args[2]) = 0
       THEN Finish(p, Err("Like not found", NoId))
       ELSE Goto(p, "transaction", <<>>)
  /\ UNCHANGED <<dbVars, clock, last, scn>>

\* db.transaction: the delete and the like_count update commit together
DeleteLikeTransaction(p) ==
  /\ At(p, "deleteLike", "transaction")
  /\ likes' = DeleteLikeRows(likes, procs[p].args[1], procs[p].args[2])
  /\ posts' = AddLikeCount(posts, procs[p].args[2], -1)
  /\ Finish(p, Ok)
  /\ UNCHANGED <<users, follows, nextPostId, listings, transactions, notifications, clock,
                 last, scn>>

\* ---------------------------------------- createPost, statement by statement
CreatePostCall(p, user_id, parent_post_id) ==
  /\ Call(p, "createPost", <<user_id, parent_post_id>>, "selectUser")
  /\ UNCHANGED <<dbVars, clock>>

\* the select of the user row, kept in user[0] to the end of the call
CreatePostSelectUser(p) ==
  /\ At(p, "createPost", "selectUser")
  /\ LET user_id == procs[p].args[1]
         parent_post_id == procs[p].args[2]
     IN IF ~UserExists(users, user_id)
          THEN Finish(p, Err("User not found", NoId))
          ELSE Goto(p, IF parent_post_id # NoId THEN "selectParent" ELSE "insert",
                    [user |-> users[user_id]])
  /\ UNCHANGED <<dbVars, clock, last, scn>>

CreatePostSelectParent(p) ==
  /\ At(p, "createPost", "selectParent")
  /\ IF ~PostExists(posts, procs[p].args[2])
       THEN Finish(p, Err("Parent post not found", NoId))
       ELSE Goto(p, "insert", procs[p].loc)
  /\ UNCHANGED <<dbVars, clock, last, scn>>

\* the insert; the store refuses a parent_post_id that refers to no post
CreatePostInsert(p) ==
  /\ At(p, "createPost", "insert")
  /\ LET user_id == procs[p].args[1]
         parent_post_id == procs[p].args[2]
     IN IF parent_post_id # NoId /\ ~PostExists(posts, parent_post_id)
          THEN /\ Finish(p, Err("foreign key violation", NoId))
               /\ UNCHANGED <<posts, nextPostId>>
          ELSE /\ nextPostId <= MaxPosts
               /\ posts' = InsertPost(posts, nextPostId, user_id, parent_post_id)
               /\ nextPostId' = nextPostId + 1
               /\ Goto(p, "updateUser", procs[p].loc)
  /\ UNCHANGED <<users, follows, likes, listings, transactions, notifications, clock, last, scn>>

\* post_count: user[0].post_count + 1, from the row read at the start
CreatePostUpdateUser(p) ==
  /\ At(p, "createPost", "updateUser")
  /\ users' = SetPostCount(users, procs[p].args[1],
                           procs[p].loc.user.post_count + 1)
  /\ IF procs[p].args[2] # NoId
       THEN Goto(p, "selectParentAgain", <<>>)
       ELSE Finish(p, Ok)
  /\ UNCHANGED <<follows, posts, nextPostId, likes, listings, transactions, notifications,
                 clock, last, scn>>

CreatePostSelectParentAgain(p) ==
  /\ At(p, "createPost", "selectParentAgain")
  /\ PostExists(posts, procs[p].args[2])
  /\ Goto(p, "updateParent",
          [reply_count |-> posts[procs[p].args[2]].reply_count])
  /\ UNCHANGED <<dbVars, clock, last, scn>>

\* reply_count: parentPosts[0].reply_count + 1, from the row just read
CreatePostUpdateParent(p) ==
  /\ At(p, "createPost", "updateParent")
  /\ posts' = SetReplyCount(posts, procs[p].args[2],
                            procs[p].loc.reply_count + 1)
  /\ Finish(p, Ok)
  /\ UNCHANGED <<users, follows, nextPostId, likes, listings, transactions, notifications,
                 clock, last, scn>>

\* ---------------------------------------- deletePost, statement by statement
DeletePostCall(p, id) ==
  /\ Call(p, "deletePost", <<id>>, "selectExisting")
  /\ UNCHANGED <<dbVars, clock>>

DeletePostSelectExisting(p) ==
  /\ At(p, "deletePost", "selectExisting")
  /\ IF ~PostExists(posts, procs[p].args[1])
       THEN Finish(p, Err("Post not found", NoId))
       ELSE Goto(p, "delete", [post |-> posts[procs[p].args[1]]])
  /\ UNCHANGED <<dbVars, clock, last, scn>>

\* the delete on a store that has no foreign keys
DeletePostDeleteUnchecked(p) ==
  /\ At(p, "deletePost", "delete")
  /\ posts' = DeletePostRow(posts, procs[p].args[1])
  /\ Goto(p, "count", procs[p].loc)
  /\ UNCHANGED <<users, follows, nextPostId, likes, listings, transactions, notifications,
                 clock, last, scn>>

\* the delete; the store refuses to delete a post that replies or likes
\* refer to
DeletePostDelete(p) ==
  /\ At(p, "deletePost", "delete")
  /\ IF PostIsReferenced(posts, likes, procs[p].args[1])
       THEN /\ Finish(p, Err("foreign key violation", NoId))
            /\ UNCHANGED posts
       ELSE /\ posts' = DeletePostRow(posts, procs[p].args[1])
            /\ Goto(p, "count", procs[p].loc)
  /\ UNCHANGED <<users, follows, nextPostId, likes, listings, transactions, notifications,
                 clock, last, scn>>

DeletePostCount(p) ==
  /\ At(p, "deletePost", "count")
  /\ Goto(p, "updateUser",
          [post |-> procs[p].loc.post,
           count |-> CountPostsOf(posts, procs[p].loc.post.user_id)])
  /\ UNCHANGED <<dbVars, clock, last, scn>>

DeletePostUpdateUser(p) ==
  /\ At(p, "deletePost", "updateUser")
  /\ users' = SetPostCount(users, procs[p].loc.post.user_id, procs[p].loc.count)
  /\ Finish(p, Ok)
  /\ UNCHANGED <<follows, posts, nextPostId, likes, listings, transactions, notifications,
                 clock, last, scn>>

\* ------------------------------------------------------- storage failures
StorageError == Err("storage failure", NoId)

\* the request of p throws at the statement it was about to issue
Fail(p) ==
  procs' = [procs EXCEPT ![p].pc = "idle", ![p].err = StorageError,
                         ![p].loc = [failedAt |-> procs[p].pc]]

\* a statement issued outside db.transaction fails: it changes nothing, and
\* what the statements before it changed stays
StorageFailure(p) ==
  /\ procs[p].pc \notin {"idle", "throwSelf", "transaction"}
  /\ Fail(p)
  /\ UNCHANGED <<dbVars, clock, last, scn>>

\* a transaction that keeps what its statements did before the throw
NotRolledBack(before, inside) == inside

\* db.transaction with a throw inside: the store goes back to what it was
\* before the transaction began
RolledBack(before, inside) == before

\* createLike's transaction fails at its insert or at its update
CreateLikeTransactionFails(p) ==
  /\ At(p, "createLike", "transaction")
  /\ \E failed \in {"insert", "update"} :
       LET inside == IF failed = "update"
                       THEN InsertLike(likes, procs[p].args[1], procs[p].args[2])
                       ELSE likes
       IN likes' = RolledBack(likes, inside)
  /\ Fail(p)
  /\ UNCHANGED <<users, follows, posts, nextPostId, listings, transactions, notifications,
                 clock, last, scn>>

\* deleteLike's transaction fails at its delete or at its update
DeleteLikeTransactionFails(p) ==
  /\ At(p, "deleteLike", "transaction")
  /\ \E failed \in {"delete", "update"} :
       LET inside == IF failed = "update"
                       THEN DeleteLikeRows(likes, procs[p].args[1], procs[p].args[2])
                       ELSE likes
       IN likes' = RolledBack(likes, inside)
  /\ Fail(p)
  /\ UNCHANGED <<users, follows, posts, nextPostId, listings, transactions, notifications,
                 clock, last, scn>>

\* ------------------------------------------------------------------ Init
Init ==
  /\ users = <<>>
  /\ follows = [pr \in Pairs(UserIds, UserIds) |-> 0]
  /\ posts = <<>>
  /\ nextPostId = 1
  /\ likes = [pr \in Pairs(UserIds, PostIds) |-> 0]
  /\ listings = <<>>
  /\ transactions = <<>>
  /\ notifications = <<>>
  /\ clock = 0
  /\ last = NoCall
  /\ scn = NoScn
  /\ procs = [p \in Procs |-> IdleProc]

\* -------------------------------------------------------- specifications
\* the follow handlers, one call at a time
NextFollow ==
  \/ CreateUser(MaxUsers)
  \/ \E a, b \in UserIds : CreateFollow(a, b)
  \/ \E a, b \in UserIds : DeleteFollow(a, b)

SpecFollow == Init /\ [][NextFollow]_vars

\* the post handlers, one call at a time
NextPost ==
  \/ CreateUser(MaxAuthors)
  \/ \E u \in AuthorIds, q \in PostIds \cup {NoId} : CreatePost(u, q)
  \/ \E q \in PostIds : DeletePost(q)

SpecPost == Init /\ [][NextPost]_vars

\* the like handlers, one call at a time, on top-level posts
NextLike ==
  \/ CreateUser(MaxAuthors)
  \/ \E u \in AuthorIds : nextPostId <= MaxLikedPosts /\ CreatePost(u, NoId)
  \/ \E u \in AuthorIds, q \in LikedPostIds : CreateLike(u, q)
  \/ \E u \in AuthorIds, q \in LikedPostIds : DeleteLike(u, q)

SpecLike == Init /\ [][NextLike]_vars

\* the marketplace handlers, one call at a time, with requests that repeat
NextTxn ==
  \/ CreateUser(MaxTraders)
  \/ \E u \in TraderIds, pr \in Prices, c \in ListingCurrencies :
       CreateListing(u, pr, c)
  \/ \E l \in ListingIds : DeactivateListing(l)
  \/ \E input \in RetryInputs : clock < MaxCalls /\ CreateTransaction(input)

SpecTxn == Init /\ [][NextTxn]_vars

\* the marketplace handlers, one call at a time, with requests that fail
\* the checks of createTransaction in every combination
NextTxnChecks ==
  \/ CreateUser(MaxTraders)
  \/ \E u \in TraderIds, pr \in Prices, c \in ListingCurrencies :
       CreateListing(u, pr, c)
  \/ \E l \in ListingIds : DeactivateListing(l)
  \/ \E input \in TransactionInputs :
       clock < MaxCheckedCalls /\ CreateTransaction(input)

SpecTxnChecks == Init /\ [][NextTxnChecks]_vars

\* createFollow and createLike requests whose statements interleave, on the
\* users and posts earlier calls created
NextConcPairs ==
  \/ CreateUser(MaxAuthors)
  \/ \E u \in AuthorIds : nextPostId <= MaxLikedPosts /\ CreatePost(u, NoId)
  \/ \E p \in Procs, a \in AuthorIds, b \in AuthorIds :
       procs[p].calls < MaxRequests /\ CreateFollowCall(p, a, b)
  \/ \E p \in Procs :
       \/ CreateFollowThrowSelf(p)
       \/ CreateFollowSelectUsers(p)
       \/ CreateFollowSelectFollower(p)
       \/ CreateFollowSelectFollowing(p)
       \/ CreateFollowSelectExisting(p)
       \/ CreateFollowInsert(p)
       \/ CreateFollowUpdateFollowing(p)
       \/ CreateFollowUpdateFollower(p)
  \/ \E p \in Procs, u \in AuthorIds, q \in LikedPostIds :
       procs[p].calls < MaxRequests /\ CreateLikeCall(p, u, q)
  \/ \E p \in Procs :
       \/ CreateLikeSelectUser(p)
       \/ CreateLikeSelectPost(p)
       \/ CreateLikeSelectExisting(p)
       \/ CreateLikeTransaction(p)

SpecConcPairs == Init /\ [][NextConcPairs]_vars

\* createTransaction requests whose statements interleave, on the users and
\* listings earlier calls created
NextConcTxn ==
  \/ CreateUser(MaxTraders)
  \/ \E u \in TraderIds, pr \in Prices, c \in ListingCurrencies :
       CreateListing(u, pr, c)
  \/ \E l \in ListingIds : DeactivateListing(l)
  \/ \E p \in Procs, input \in RetryInputs :
       procs[p].calls < MaxRequests /\ CreateTransactionCall(p, input)
  \/ \E p \in Procs :
       \/ CreateTransactionSelectListing(p)
       \/ CreateTransactionSelectBuyer(p)
       \/ CreateTransactionSelectSeller(p)
       \/ CreateTransactionSelectPending(p)
       \/ CreateTransactionInsert(p)

SpecConcTxn == Init /\ [][NextConcTxn]_vars

\* requests served one after the other all pass through one slot
Serial == {1}

\* the slot takes another request
MoreSerial(p) == procs[p].calls < MaxSerialRequests

\* no request has been served yet: the store is being filled
NoRequestYet == \A p \in Procs : procs[p].calls = 0

\* createFollow, deleteFollow, createPost and deletePost requests served one
\* after the other, any of whose statements may fail in the store
NextFail ==
  \/ NoRequestYet /\ CreateUser(MaxAuthors)
  \/ \E p \in Serial, a \in AuthorIds, b \in AuthorIds :
       \/ MoreSerial(p) /\ CreateFollowCall(p, a, b)
       \/ MoreSerial(p) /\ DeleteFollowCall(p, a, b)
  \/ \E p \in Serial, u \in AuthorIds, q \in PostIds \cup {NoId} :
       MoreSerial(p) /\ CreatePostCall(p, u, q)
  \/ \E p \in Serial, q \in PostIds : MoreSerial(p) /\ DeletePostCall(p, q)
  \/ \E p \in Serial :
       \/ CreateFollowThrowSelf(p)
       \/ CreateFollowSelectUsers(p)
       \/ CreateFollowSelectFollower(p)
       \/ CreateFollowSelectFollowing(p)
       \/ CreateFollowSelectExisting(p)
       \/ CreateFollowInsert(p)
       \/ CreateFollowUpdateFollowing(p)
       \/ CreateFollowUpdateFollower(p)
       \/ DeleteFollowSelectExisting(p)
       \/ DeleteFollowDelete(p)
       \/ DeleteFollowUpdateFollowing(p)
       \/ DeleteFollowUpdateFollower(p)
       \/ CreatePostSelectUser(p)
       \/ CreatePostSelectParent(p)
       \/ CreatePostInsert(p)
       \/ CreatePostUpdateUser(p)
       \/ CreatePostSelectParentAgain(p)
       \/ CreatePostUpdateParent(p)
       \/ DeletePostSelectExisting(p)
       \/ DeletePostDelete(p)
       \/ DeletePostCount(p)
       \/ DeletePostUpdateUser(p)
       \/ StorageFailure(p)

SpecFail == Init /\ [][NextFail]_vars

\* createLike and deleteLike requests served one after the other, whose
\* transaction may fail in the store
NextLikeFail ==
  \/ NoRequestYet /\ CreateUser(MaxAuthors)
  \/ \E u \in AuthorIds :
       NoRequestYet /\ nextPostId <= MaxLikedPosts /\ CreatePost(u, NoId)
  \/ \E p \in Serial, u \in AuthorIds, q \in LikedPostIds :
       \/ MoreSerial(p) /\ CreateLikeCall(p, u, q)
       \/ MoreSerial(p) /\ DeleteLikeCall(p, u, q)
  \/ \E p \in Serial :
       \/ CreateLikeSelectUser(p)
       \/ CreateLikeSelectPost(p)
       \/ CreateLikeSelectExisting(p)
       \/ CreateLikeTransaction(p)
       \/ CreateLikeTransactionFails(p)
       \/ DeleteLikeSelectExisting(p)
       \/ DeleteLikeTransaction(p)
       \/ DeleteLikeTransactionFails(p)
       \/ StorageFailure(p)

SpecLikeFail == Init /\ [][NextLikeFail]_vars

\* createPost requests whose statements interleave, on the users and posts
\* earlier calls created
NextConcPosts ==
  \/ NoRequestYet /\ CreateUser(MaxAuthors)
  \/ \E u \in AuthorIds : NoRequestYet /\ CreatePost(u, NoId)
  \/ \E p \in Procs, u \in AuthorIds, q \in PostIds \cup {NoId} :
       procs[p].calls < MaxRequests /\ CreatePostCall(p, u, q)
  \/ \E p \in Procs :
       \/ CreatePostSelectUser(p)
       \/ CreatePostSelectParent(p)
       \/ CreatePostInsert(p)
       \/ CreatePostUpdateUser(p)
       \/ CreatePostSelectParentAgain(p)
       \/ CreatePostUpdateParent(p)

SpecConcPosts == Init /\ [][NextConcPosts]_vars

\* ------------------------------------------------------------ properties
\* the Follow rows whose following_id is u, and those whose follower_id is u
FollowersOf(u) == SumOver([a \in UserIds |-> follows[<<a, u>>]], UserIds)
FollowingOf(u) == SumOver([b \in UserIds |-> follows[<<u, b>>]], UserIds)

\* C1: with createFollow and deleteFollow run one call at a time from the
\* empty store, every user's follower_count is the number of Follow rows that
\* name the user as following_id and every following_count the number that
\* name the user as follower_id.
C1_FollowCountersMatchRows ==
  \A u \in DOMAIN users :
    /\ users[u].follower_count = FollowersOf(u)
    /\ users[u].following_count = FollowingOf(u)

C1_Witness ==
  /\ last.op = "deleteFollow" /\ last.err = Ok
  /\ \E u \in DOMAIN users : users[u].follower_count = 2
  /\ \E u \in DOMAIN users : users[u].following_count = 1

\* C8: createFollow(A,B) on two distinct existing users with no row (A,B)
\* succeeds, adds 1 to following_count(A) and follower_count(B) and changes no
\* other counter; repeated, it fails with the already-exists error and changes
\* nothing; the deleteFollow(A,B) that follows returns true, removes the row
\* and restores both counters to what they were before the createFollow; one
\* more deleteFollow(A,B) fails with the does-not-exist error.
C8_FollowRoundTrip ==
  /\ (/\ last.op = "createFollow"
      /\ last.args[1] # last.args[2]
      /\ last.args[1] \in DOMAIN last.pre.users
      /\ last.args[2] \in DOMAIN last.pre.users
      /\ last.pre.follows[last.args] = 0)
     => /\ last.err = Ok
        /\ follows = [last.pre.follows EXCEPT ![last.args] = 1]
        /\ users = [last.pre.users EXCEPT
                      ![last.args[1]].following_count = @ + 1,
                      ![last.args[2]].follower_count = @ + 1]
  /\ (scn.kind = "follow" /\ scn.stage = 2)
     => /\ last.op = "createFollow" /\ last.args = scn.key
        /\ last.err = Err("Follow relationship already exists", NoId)
        /\ Db = last.pre
  /\ (scn.kind = "follow" /\ scn.stage = 3)
     => /\ last.op = "deleteFollow" /\ last.args = scn.key
        /\ last.err = Ok
        /\ follows[scn.key] = 0
        /\ follows = scn.snap.follows
        /\ users = scn.snap.users
  /\ (scn.kind = "follow" /\ scn.stage = 4)
     => /\ last.op = "deleteFollow" /\ last.args = scn.key
        /\ last.err = Err("Follow relationship does not exist", NoId)
        /\ Db = last.pre

C8_Witness ==
  /\ scn.kind = "follow" /\ scn.stage = 4 /\ scn.dup
  /\ Cardinality(DOMAIN users) = 3
  /\ scn.snap.users[scn.key[1]].following_count > 0
  /\ scn.snap.users[scn.key[2]].follower_count > 0

\* C2: with createLike and deleteLike run one call at a time from the empty
\* store, every post's like_count is the number of Like rows on the post.
C2_LikeCountMatchesRows ==
  \A q \in DOMAIN posts : posts[q].like_count = LikesOfPost(likes, q)

C2_Witness ==
  /\ last.op = "deleteLike" /\ last.err = Ok
  /\ last.pre.posts[last.args[2]].like_count = 2
  /\ posts[last.args[2]].like_count = 1

\* C3: with createPost and deletePost run one call at a time from the empty
\* store, every user's post_count is the number of Post rows of the user, and
\* deletePost leaves the post_count of every user but the owner as it was.
C3_PostCountMatchesRows ==
  /\ \A u \in DOMAIN users : users[u].post_count = CountPostsOf(posts, u)
  /\ (last.op = "deletePost" /\ last.args[1] \in DOMAIN last.pre.posts)
     => \A u \in DOMAIN users :
          u # last.pre.posts[last.args[1]].user_id
          => users[u].post_count = last.pre.users[u].post_count

C3_Witness ==
  /\ last.op = "deletePost" /\ last.err = Ok
  /\ last.pre.posts[last.args[1]].parent_post_id # NoId
  /\ \E u \in DOMAIN users :
       /\ u # last.pre.posts[last.args[1]].user_id
       /\ users[u].post_count >= 1
  /\ users[last.pre.posts[last.args[1]].user_id].post_count >= 1

\* C9: createLike(U,P) on an existing user and post with no Like row (U,P)
\* succeeds; repeated before the deletion it fails with the already-exists
\* error and leaves like_count(P) alone; after the deleteLike(U,P) that
\* follows, like_count(P) and the Like rows are what they were before the
\* createLike; the likes of P by other users are the same throughout.
C9_LikeRoundTrip ==
  /\ (/\ last.op = "createLike"
      /\ last.args[1] \in DOMAIN last.pre.users
      /\ last.args[2] \in DOMAIN last.pre.posts
      /\ last.pre.likes[last.args] = 0)
     => /\ last.err = Ok
        /\ likes = [last.pre.likes EXCEPT ![last.args] = 1]
  /\ (scn.kind = "like" /\ scn.stage = 2)
     => /\ last.op = "createLike" /\ last.args = scn.key
        /\ last.err = Err("Like already exists", NoId)
        /\ posts = last.pre.posts
        /\ likes = last.pre.likes
  /\ (scn.kind = "like" /\ scn.stage = 3)
     => /\ last.op = "deleteLike" /\ last.args = scn.key
        /\ last.err = Ok
        /\ likes = scn.snap.likes
        /\ posts = scn.snap.posts
  /\ (scn.kind = "like" /\ scn.stage \in {1, 2, 3})
     => \A u \in UserIds :
          u # scn.key[1] => likes[<<u, scn.key[2]>>] = scn.snap.likes[<<u, scn.key[2]>>]

C9_Witness ==
  /\ scn.kind = "like" /\ scn.stage = 3 /\ scn.dup
  /\ \E u \in UserIds : u # scn.key[1] /\ likes[<<u, scn.key[2]>>] = 1

\* C10: a createPost that succeeds with a null parent_post_id changes no
\* post's reply_count; one that succeeds with parent P adds 1 to
\* reply_count(P) and changes no other post's reply_count; either way the
\* author's post_count rises by 1 and no other counter of any user changes.
C10_CreatePostFrame ==
  (last.op = "createPost" /\ last.err = Ok)
  => /\ \A q \in DOMAIN last.pre.posts :
          posts[q].reply_count =
            last.pre.posts[q].reply_count + (IF q = last.args[2] THEN 1 ELSE 0)
     /\ users = [last.pre.users EXCEPT ![last.args[1]].post_count = @ + 1]

C10_Witness ==
  /\ last.op = "createPost" /\ last.err = Ok
  /\ last.args[2] # NoId
  /\ \E q \in DOMAIN posts :
       q \notin {last.args[2], last.ret.id} /\ posts[q].reply_count = 1
  /\ Cardinality(DOMAIN users) = 2

\* ------------------------------------------------------------------- C5
\* C5: when createTransaction succeeds and is called again right after with
\* the same listing_id, buyer_id, seller_id, amount and currency, the second
\* call raises no error, returns the id and created_at of the first (and its
\* payment_method, whatever the second call sent), inserts no row, and leaves
\* exactly one row of that listing and buyer.
C5_RepeatedTransactionIsIdempotent ==
  (last.op = "createTransaction" /\ scn.kind = "txn" /\ scn.stage = 2) =>
    /\ last.err = Ok
    /\ last.ret.id = scn.ret.id
    /\ last.ret.created_at = scn.ret.created_at
    /\ last.ret.payment_method = scn.ret.payment_method
    /\ transactions = last.pre.transactions
    /\ Cardinality({i \in DOMAIN transactions :
                      /\ transactions[i].listing_id = last.args.listing_id
                      /\ transactions[i].buyer_id = last.args.buyer_id}) = 1

\* the second call came with another payment_method, later than the first
C5_Witness ==
  /\ last.op = "createTransaction" /\ scn.kind = "txn" /\ scn.stage = 2
  /\ last.args.payment_method # scn.ret.payment_method
  /\ clock > scn.ret.created_at

\* ------------------------------------------------------------------- C6
\* C6: a createTransaction call fails with the error of the earliest check
\* that fails, in the order listing exists, listing active, buyer exists,
\* seller exists, buyer is not seller, seller owns the listing, amount within
\* 0.01 of the price, currency equal; it succeeds when none fails.
C6_EarliestFailingCheck ==
  last.op = "createTransaction" =>
    LET in == last.args
        us == last.pre.users
        lst == last.pre.listings
        e1 == in.listing_id \notin DOMAIN lst
        e2 == ~e1 /\ ~lst[in.listing_id].is_active
        e3 == in.buyer_id \notin DOMAIN us
        e4 == in.seller_id \notin DOMAIN us
        e5 == in.buyer_id = in.seller_id
        e6 == ~e1 /\ lst[in.listing_id].user_id # in.seller_id
        e7 == ~e1 /\ \/ in.amount - lst[in.listing_id].price * 10 > Tolerance
                     \/ lst[in.listing_id].price * 10 - in.amount > Tolerance
        e8 == ~e1 /\ in.currency # lst[in.listing_id].currency
    IN
      /\ e1 => last.err = Err("Listing not found", in.listing_id)
      /\ (~e1 /\ e2) => last.err = Err("Listing is not active", in.listing_id)
      /\ (~e1 /\ ~e2 /\ e3) => last.err = Err("Buyer not found", in.buyer_id)
      /\ (~e1 /\ ~e2 /\ ~e3 /\ e4) =>
           last.err = Err("Seller not found", in.seller_id)
      /\ (~e1 /\ ~e2 /\ ~e3 /\ ~e4 /\ e5) =>
           last.err = Err("Buyer and seller cannot be the same user", NoId)
      /\ (~e1 /\ ~e2 /\ ~e3 /\ ~e4 /\ ~e5 /\ e6) =>
           last.err = Err("Seller must be the owner of the listing", NoId)
      /\ (~e1 /\ ~e2 /\ ~e3 /\ ~e4 /\ ~e5 /\ ~e6 /\ e7) =>
           last.err = Err("Transaction amount must match listing price", NoId)
      /\ (~e1 /\ ~e2 /\ ~e3 /\ ~e4 /\ ~e5 /\ ~e6 /\ ~e7 /\ e8) =>
           last.err = Err("Transaction currency must match listing currency",
                          NoId)
      /\ (~e1 /\ ~e2 /\ ~e3 /\ ~e4 /\ ~e5 /\ ~e6 /\ ~e7 /\ ~e8) =>
           last.err = Ok

\* a call that fails several checks at once: the listing is inactive, buyer
\* and seller are the same user, who does not exist, amount and currency are
\* off, and the error is the one of the listing
C6_Witness ==
  /\ last.op = "createTransaction"
  /\ last.args.listing_id \in DOMAIN last.pre.listings
  /\ ~last.pre.listings[last.args.listing_id].is_active
  /\ last.args.buyer_id \notin DOMAIN last.pre.users
  /\ last.args.buyer_id = last.args.seller_id
  /\ last.args.amount = 2000
  /\ last.args.currency = "EUR"
  /\ last.err = Err("Listing is not active", last.args.listing_id)

\* ------------------------------------------------------------------- C4
\* C4: in every reachable state, also when the statements of createTransaction
\* requests for the same listing and buyer interleave, at most one row of
\* transactions with status 'pending' has a given listing_id and buyer_id.
C4_OnePendingPerListingAndBuyer ==
  \A i, j \in DOMAIN transactions :
    ( /\ transactions[i].status = "pending"
      /\ transactions[j].status = "pending"
      /\ transactions[i].listing_id = transactions[j].listing_id
      /\ transactions[i].buyer_id = transactions[j].buyer_id ) => i = j

\* ------------------------------------------------------------------- C7
\* C7: in every reachable state, also when the statements of createFollow
\* requests (of createLike requests) for the same pair interleave, follows has
\* at most one row per (follower_id, following_id), no row with follower_id =
\* following_id, and likes has at most one row per (user_id, post_id).
C7_OneRowPerPair ==
  /\ \A pr \in DOMAIN follows : follows[pr] <= 1
  /\ \A pr \in DOMAIN follows : pr[1] = pr[2] => follows[pr] = 0
  /\ \A pr \in DOMAIN likes : likes[pr] <= 1

\* ------------------------------------------------------------------ C11
\* C11: after any sequence of createPost and deletePost calls run one at a
\* time, reply_count of every existing post equals the number of posts whose
\* parent_post_id is that post; deleting a reply lowers its parent's count.
C11_ReplyCountMatchesRows ==
  \A q \in DOMAIN posts :
    posts[q].reply_count = Cardinality(RepliesTo(posts, q))

\* ------------------------------------------------------------------ C12
\* C12: when a storage failure aborts createFollow, deleteFollow, createPost
\* or deletePost at one of its statements, the store is as it was before the
\* call; no row of follows or posts has changed without its counters, and no
\* counter without its row.
C12_FailureLeavesAllOrNothing ==
  [][\A p \in Procs :
       ( /\ procs[p].op \in {"createFollow", "deleteFollow", "createPost",
                             "deletePost"}
         /\ procs[p].pc # "idle"
         /\ procs'[p].pc = "idle"
         /\ procs'[p].err = StorageError )
       => Db' = procs[p].pre]_vars

\* ------------------------------------------------------------------ C13
\* C13: in createLike and deleteLike the change of the likes rows and the
\* change of like_count are one unit: every step of the store that changes
\* the rows of a post changes its like_count and the other way round, so no
\* request sees one without the other, and a like request that a storage
\* failure aborts leaves likes and posts as they were.
C13_LikeTransactionAllOrNothing ==
  [][/\ \A q \in DOMAIN posts \cap DOMAIN posts' :
          (LikesOfPost(likes', q) # LikesOfPost(likes, q))
            <=> (posts'[q].like_count # posts[q].like_count)
     /\ \A p \in Procs :
          ( /\ procs[p].op \in {"createLike", "deleteLike"}
            /\ procs[p].pc # "idle"
            /\ procs'[p].pc = "idle"
            /\ procs'[p].err = StorageError )
          => (likes' = likes /\ posts' = posts)]_vars

\* a deleteLike request ended by a failure of its transaction: the row it
\* was to delete and the count are still there
C13_Witness ==
  \E p \in Procs :
    /\ procs[p].op = "deleteLike" /\ procs[p].pc = "idle"
    /\ procs[p].err = StorageError /\ procs[p].loc.failedAt = "transaction"
    /\ LikeRows(likes, procs[p].args[1], procs[p].args[2]) = 1
    /\ posts[procs[p].args[2]].like_count = 1

\* ------------------------------------------------------------------ C14
\* C14: counter changes are atomic adds on the stored value, so when the
\* statements of createPost requests interleave and all have returned, every
\* post_count has grown by one per post the user created and every
\* reply_count by one per reply created: with no delete in between, each
\* counter equals the number of rows it counts.
C14_NoLostUpdate ==
  Idle =>
    /\ \A u \in DOMAIN users : users[u].post_count = CountPostsOf(posts, u)
    /\ \A q \in DOMAIN posts :
         posts[q].reply_count = Cardinality(RepliesTo(posts, q))

\* ------------------------------------------------------- notificationsTable
NotificationTypes == {"like"}

\* the row createNotification inserts
NewNotification(input) ==
  [user_id |-> input.user_id, type |-> input.type, is_read |-> FALSE]

\* db.insert(notificationsTable)
InsertNotification(ns, input) == Append(ns, NewNotification(input))

\* update notifications set is_read = true where user_id
MarkAllRead(ns, userId) ==
  [i \in DOMAIN ns |->
     IF ns[i].user_id = userId THEN [ns[i] EXCEPT !.is_read = TRUE] ELSE ns[i]]

CreateNotificationInputs == [user_id : AuthorIds, type : NotificationTypes]

\* --------------------------------------------- handlers that return a value
\* the request of p returns ret
Return(p, ret) ==
  procs' = [procs EXCEPT ![p].pc = "idle", ![p].loc = [result |-> ret],
                         ![p].err = Ok]

\* p served op and holds what it returned
Returned(p, op) ==
  /\ procs[p].op = op
  /\ procs[p].pc = "idle"
  /\ procs[p].err = Ok
  /\ DOMAIN procs[p].loc = {"result"}

\* p served op and threw err
Threw(p, op, err) ==
  procs[p].op = op /\ procs[p].pc = "idle" /\ procs[p].err = err

\* ------------------------------------- updateListing, statement by statement
\* the request arrives; new Date() of this request is the advanced clock
UpdateListingCall(p, input) ==
  /\ Call(p, "updateListing", input, "selectExisting")
  /\ clock' = clock + 1
  /\ UNCHANGED dbVars

UpdateListingSelectExisting(p) ==
  /\ At(p, "updateListing", "selectExisting")
  /\ IF ~ListingExists(listings, procs[p].args.id)
       THEN Finish(p, Err("Listing not found", procs[p].args.id))
       ELSE Goto(p, "update", <<>>)
  /\ UNCHANGED <<dbVars, clock, last, scn>>

UpdateListingUpdate(p) ==
  /\ At(p, "updateListing", "update")
  /\ listings' = UpdateListingRow(listings, procs[p].args, clock)
  /\ Return(p, ListingResult(listings', procs[p].args.id))
  /\ UNCHANGED <<users, follows, posts, nextPostId, likes, transactions,
                 notifications, clock, last, scn>>

\* --------------------------------- deactivateListing, statement by statement
DeactivateListingCall(p, id) ==
  /\ Call(p, "deactivateListing", <<id>>, "selectExisting")
  /\ clock' = clock + 1
  /\ UNCHANGED dbVars

DeactivateListingSelectExisting(p) ==
  /\ At(p, "deactivateListing", "selectExisting")
  /\ IF ~ListingExists(listings, procs[p].args[1])
       THEN Finish(p, Err("Listing not found", procs[p].args[1]))
       ELSE Goto(p, "update", <<>>)
  /\ UNCHANGED <<dbVars, clock, last, scn>>

\* result.length > 0
DeactivateListingUpdate(p) ==
  /\ At(p, "deactivateListing", "update")
  /\ listings' = SetInactive(listings, procs[p].args[1])
  /\ Return(p, ListingExists(listings, procs[p].args[1]))
  /\ UNCHANGED <<users, follows, posts, nextPostId, likes, transactions,
                 notifications, clock, last, scn>>

\* ------------------------------------ getListingById, statement by statement
GetListingByIdCall(p, id) ==
  /\ Call(p, "getListingById", <<id>>, "update")
  /\ clock' = clock + 1
  /\ UNCHANGED dbVars

\* the increment, made before the row is looked up
GetListingByIdUpdate(p) ==
  /\ At(p, "getListingById", "update")
  /\ listings' = AddViewCount(listings, procs[p].args[1])
  /\ Goto(p, "select", <<>>)
  /\ UNCHANGED <<users, follows, posts, nextPostId, likes, transactions,
                 notifications, clock, last, scn>>

GetListingByIdSelect(p) ==
  /\ At(p, "getListingById", "select")
  /\ IF ~ListingExists(listings, procs[p].args[1])
       THEN Return(p, NoRow)
       ELSE Return(p, ListingResult(listings, procs[p].args[1]))
  /\ UNCHANGED <<dbVars, clock, last, scn>>

\* ---------------------------------------- updatePost, statement by statement
UpdatePostCall(p, input) ==
  /\ Call(p, "updatePost", input, "selectExisting")
  /\ clock' = clock + 1
  /\ UNCHANGED dbVars

UpdatePostSelectExisting(p) ==
  /\ At(p, "updatePost", "selectExisting")
  /\ IF ~PostExists(posts, procs[p].args.id)
       THEN Finish(p, Err("Post not found", NoId))
       ELSE Goto(p, "update", <<>>)
  /\ UNCHANGED <<dbVars, clock, last, scn>>

UpdatePostUpdate(p) ==
  /\ At(p, "updatePost", "update")
  /\ posts' = UpdatePostRow(posts, procs[p].args, clock)
  /\ Return(p, posts'[procs[p].args.id])
  /\ UNCHANGED <<users, follows, nextPostId, likes, listings, transactions,
                 notifications, clock, last, scn>>

\* ------------------------------------- createListing, statement by statement
CreateListingCall(p, user_id, price, currency) ==
  /\ Call(p, "createListing", <<user_id, price, currency>>, "selectUser")
  /\ UNCHANGED <<dbVars, clock>>

CreateListingSelectUser(p) ==
  /\ At(p, "createListing", "selectUser")
  /\ IF ~UserExists(users, procs[p].args[1])
       THEN Finish(p, Err("User does not exist", procs[p].args[1]))
       ELSE Goto(p, "insert", <<>>)
  /\ UNCHANGED <<dbVars, clock, last, scn>>

CreateListingInsert(p) ==
  /\ At(p, "createListing", "insert")
  /\ LET id == Cardinality(DOMAIN listings) + 1 IN
       /\ id <= MaxListings
       /\ listings' = InsertListing(listings, id, procs[p].args[1],
                                    procs[p].args[2], procs[p].args[3])
       /\ Return(p, ListingResult(listings', id))
  /\ UNCHANGED <<users, follows, posts, nextPostId, likes, transactions,
                 notifications, clock, last, scn>>

\* ------------------------------------------ the notification handlers
CreateNotificationCall(p, input) ==
  /\ Call(p, "createNotification", input, "selectUser")
  /\ UNCHANGED <<dbVars, clock>>

CreateNotificationSelectUser(p) ==
  /\ At(p, "createNotification", "selectUser")
  /\ IF ~UserExists(users, procs[p].args.user_id)
       THEN Finish(p, Err("User does not exist", procs[p].args.user_id))
       ELSE Goto(p, "insert", <<>>)
  /\ UNCHANGED <<dbVars, clock, last, scn>>

CreateNotificationInsert(p) ==
  /\ At(p, "createNotification", "insert")
  /\ Len(notifications) < MaxNotifications
  /\ notifications' = InsertNotification(notifications, procs[p].args)
  /\ Return(p, notifications'[Len(notifications')])
  /\ UNCHANGED <<users, follows, posts, nextPostId, likes, listings,
                 transactions, clock, last, scn>>

MarkAllNotificationsAsReadCall(p, userId) ==
  /\ Call(p, "markAllNotificationsAsRead", <<userId>>, "selectUser")
  /\ UNCHANGED <<dbVars, clock>>

MarkAllNotificationsAsReadSelectUser(p) ==
  /\ At(p, "markAllNotificationsAsRead", "selectUser")
  /\ IF ~UserExists(users, procs[p].args[1])
       THEN Finish(p, Err("User does not exist", procs[p].args[1]))
       ELSE Goto(p, "update", <<>>)
  /\ UNCHANGED <<dbVars, clock, last, scn>>

MarkAllNotificationsAsReadUpdate(p) ==
  /\ At(p, "markAllNotificationsAsRead", "update")
  /\ notifications' = MarkAllRead(notifications, procs[p].args[1])
  /\ Return(p, TRUE)
  /\ UNCHANGED <<users, follows, posts, nextPostId, likes, listings,
                 transactions, clock, last, scn>>

\* ------------------------------------------------------------------ C15
\* one request of any handler that validates, served statement by statement
\* on a store filled beforehand: user 1 follows user 2, has posts and a
\* listing, active or not, and likes post 1
NextChecks ==
  \/ NoRequestYet /\ CreateUser(MaxAuthors)
  \/ NoRequestYet /\ UserExists(users, 2) /\ CreateFollow(1, 2)
  \/ NoRequestYet /\ UserExists(users, 1) /\ nextPostId <= MaxLikedPosts
       /\ CreatePost(1, NoId)
  \/ NoRequestYet /\ PostExists(posts, 1) /\ CreateLike(1, 1)
  \/ \E pr \in Prices, c \in ListingCurrencies :
       NoRequestYet /\ UserExists(users, 1) /\ CreateListing(1, pr, c)
  \/ \E l \in ListingIds :
       NoRequestYet /\ ListingExists(listings, l) /\ DeactivateListing(l)
  \/ \E p \in Serial, a \in AuthorIds, b \in AuthorIds :
       \/ NoRequestYet /\ CreateFollowCall(p, a, b)
       \/ NoRequestYet /\ DeleteFollowCall(p, a, b)
  \/ \E p \in Serial, u \in AuthorIds, q \in PostIds :
       \/ NoRequestYet /\ CreateLikeCall(p, u, q)
       \/ NoRequestYet /\ DeleteLikeCall(p, u, q)
  \/ \E p \in Serial, u \in AuthorIds, q \in PostIds \cup {NoId} :
       NoRequestYet /\ CreatePostCall(p, u, q)
  \/ \E p \in Serial, q \in PostIds : NoRequestYet /\ DeletePostCall(p, q)
  \/ \E p \in Serial, input \in TransactionInputs :
       NoRequestYet /\ CreateTransactionCall(p, input)
  \/ \E p \in Serial, input \in UpdateListingInputs :
       NoRequestYet /\ UpdateListingCall(p, input)
  \/ \E p \in Serial, input \in UpdatePostInputs :
       NoRequestYet /\ UpdatePostCall(p, input)
  \/ \E p \in Serial, l \in ListingIds :
       NoRequestYet /\ DeactivateListingCall(p, l)
  \/ \E p \in Serial, u \in AuthorIds, pr \in Prices, c \in ListingCurrencies :
       NoRequestYet /\ CreateListingCall(p, u, pr, c)
  \/ \E p \in Serial, input \in CreateNotificationInputs :
       NoRequestYet /\ CreateNotificationCall(p, input)
  \/ \E p \in Serial, u \in AuthorIds :
       NoRequestYet /\ MarkAllNotificationsAsReadCall(p, u)
  \/ \E p \in Serial :
       \/ CreateFollowThrowSelf(p)
       \/ CreateFollowSelectUsers(p)
       \/ CreateFollowSelectFollower(p)
       \/ CreateFollowSelectFollowing(p)
       \/ CreateFollowSelectExisting(p)
       \/ CreateFollowInsert(p)
       \/ CreateFollowUpdateFollowing(p)
       \/ CreateFollowUpdateFollower(p)
       \/ DeleteFollowSelectExisting(p)
       \/ DeleteFollowDelete(p)
       \/ DeleteFollowUpdateFollowing(p)
       \/ DeleteFollowUpdateFollower(p)
       \/ CreateLikeSelectUser(p)
       \/ CreateLikeSelectPost(p)
       \/ CreateLikeSelectExisting(p)
       \/ CreateLikeTransaction(p)
       \/ DeleteLikeSelectExisting(p)
       \/ DeleteLikeTransaction(p)
       \/ CreatePostSelectUser(p)
       \/ CreatePostSelectParent(p)
       \/ CreatePostInsert(p)
       \/ CreatePostUpdateUser(p)
       \/ CreatePostSelectParentAgain(p)
       \/ CreatePostUpdateParent(p)
       \/ DeletePostSelectExisting(p)
       \/ DeletePostDelete(p)
       \/ DeletePostCount(p)
       \/ DeletePostUpdateUser(p)
       \/ CreateTransactionSelectListing(p)
       \/ CreateTransactionSelectBuyer(p)
       \/ CreateTransactionSelectSeller(p)
       \/ CreateTransactionSelectPending(p)
       \/ CreateTransactionInsert(p)
       \/ UpdateListingSelectExisting(p)
       \/ UpdateListingUpdate(p)
       \/ UpdatePostSelectExisting(p)
       \/ UpdatePostUpdate(p)
       \/ DeactivateListingSelectExisting(p)
       \/ DeactivateListingUpdate(p)
       \/ CreateListingSelectUser(p)
       \/ CreateListingInsert(p)
       \/ CreateNotificationSelectUser(p)
       \/ CreateNotificationInsert(p)
       \/ MarkAllNotificationsAsReadSelectUser(p)
       \/ MarkAllNotificationsAsReadUpdate(p)

SpecChecks == Init /\ [][NextChecks]_vars

\* C15: whenever a request of createFollow, deleteFollow, createLike,
\* deleteLike, createPost, deletePost, createTransaction, updateListing,
\* updatePost, deactivateListing, createListing, createNotification or
\* markAllNotificationsAsRead ends by throwing, every row of every table is
\* what it was when the request arrived.
C15_FailedCheckChangesNothing ==
  [][\A p \in Serial :
       (procs[p].pc # "idle" /\ procs'[p].pc = "idle" /\ procs'[p].err # Ok)
         => Db' = procs[p].pre]_vars

\* a createTransaction request on a store with a follow row, a like row and
\* a listing was refused for its amount and the store is as it was
C15_Witness ==
  /\ Threw(1, "createTransaction",
           Err("Transaction amount must match listing price", NoId))
  /\ RowCount(follows) > 0
  /\ RowCount(likes) > 0
  /\ Db = procs[1].pre

\* ------------------------------------------------------------------ C16
\* the price and the activity of a listing, the fields createTransaction reads
PricedFields == {"price", "is_active"}

\* createTransaction one call at a time on the listings of user 1, with one
\* updateListing that changes the price or the activity before, between or
\* after
NextTxnRows ==
  \/ NoRequestYet /\ CreateUser(MaxTraders)
  \/ \E pr \in Prices, c \in ListingCurrencies :
       NoRequestYet /\ UserExists(users, 1) /\ CreateListing(1, pr, c)
  \/ \E input \in TransactionInputs :
       clock < MaxCalls /\ CreateTransaction(input)
  \/ \E p \in Serial, input \in UpdateListingInputs :
       /\ clock < MaxCalls
       /\ NoRequestYet
       /\ input.present \subseteq PricedFields
       /\ UpdateListingCall(p, input)
  \/ \E p \in Serial :
       \/ UpdateListingSelectExisting(p)
       \/ UpdateListingUpdate(p)

SpecTxnRows == Init /\ [][NextTxnRows]_vars

NextViews ==
  \/ NoRequestYet /\ CreateUser(MaxTraders)
  \/ \E pr \in Prices, c \in ListingCurrencies :
       /\ NoRequestYet
       /\ UserExists(users, 1)
       /\ CreateListingUpTo(MaxCatalog, 1, pr, c)
  \/ \E l \in CatalogIds :
       NoRequestYet /\ ListingExists(listings, l) /\ DeactivateListing(l)
  \/ \E p \in Serial, l \in CatalogIds :
       procs[p].calls < MaxViews /\ GetListingByIdCall(p, l)
  \/ \E p \in Serial :
       \/ GetListingByIdUpdate(p)
       \/ GetListingByIdSelect(p)

SpecViews == Init /\ [][NextViews]_vars

\* a listing row without the two columns getListingById writes
Unviewed(row) == [row EXCEPT !.view_count = 0, !.updated_at = 0]

\* C17: when getListingById(id) has returned and id is a listing, active or
\* not, the view_count of that listing is one more than when the request
\* arrived, the value returned carries that incremented view_count (so on a
\* fresh listing the calls return 1, 2, ..., never more than the number of
\* calls), no other field but updated_at of that listing and no other row
\* has changed; when id is no listing the call returned null and no row has
\* changed.
C17_ViewCountedOnce ==
  \A p \in Serial :
    Returned(p, "getListingById") =>
      LET id == procs[p].args[1]
          pre == procs[p].pre
          result == procs[p].loc.result
      IN IF ListingExists(pre.listings, id)
           THEN /\ listings[id].view_count = pre.listings[id].view_count + 1
                /\ result = ListingResult(listings, id)
                /\ result.view_count = pre.listings[id].view_count + 1
                /\ result.view_count <= procs[p].calls
                /\ Unviewed(listings[id]) = Unviewed(pre.listings[id])
                /\ DOMAIN listings = DOMAIN pre.listings
                /\ \A l \in DOMAIN listings \ {id} : listings[l] = pre.listings[l]
                /\ [Db EXCEPT !.listings = pre.listings] = pre
           ELSE /\ result = NoRow
                /\ Db = pre

\* the third call in a row on a deactivated listing returned view_count 3
\* while a second listing was never viewed
C17_Witness ==
  /\ Returned(1, "getListingById")
  /\ procs[1].calls = MaxViews
  /\ ListingExists(listings, procs[1].args[1])
  /\ procs[1].loc.result.view_count = MaxViews
  /\ ~listings[procs[1].args[1]].is_active
  /\ \E l \in DOMAIN listings : listings[l].view_count = 0

\* ------------------------------------------------------------------ C19
\* updateListing, deactivateListing and updatePost requests served one after
\* the other, on a
\* store that holds either the listings of user 1, for updateListing, or the
\* posts of user 1, one of them liked and replied to, for updatePost
NextUpdate ==
  \/ NoRequestYet /\ CreateUser(MaxTraders)
  \/ \E pr \in Prices, c \in ListingCurrencies :
       /\ NoRequestYet
       /\ UserExists(users, 1)
       /\ DOMAIN posts = {}
       /\ CreateListingUpTo(MaxCatalog, 1, pr, c)
  \/ \E q \in {NoId} \cup LikedPostIds :
       /\ NoRequestYet
       /\ UserExists(users, 1)
       /\ DOMAIN listings = {}
       /\ nextPostId <= MaxLikedPosts
       /\ q \in {NoId} \cup DOMAIN posts
       /\ CreatePost(1, q)
  \/ NoRequestYet /\ PostExists(posts, 1) /\ CreateLike(1, 1)
  \/ \E p \in Serial, input \in UpdateListingInputs :
       MoreSerial(p) /\ DOMAIN posts = {} /\ UpdateListingCall(p, input)
  \/ \E p \in Serial, l \in CatalogIds :
       MoreSerial(p) /\ DOMAIN posts = {} /\ DeactivateListingCall(p, l)
  \/ \E p \in Serial, input \in UpdatePostInputs :
       /\ MoreSerial(p)
       /\ DOMAIN listings = {}
       /\ input.id \in LikedPostIds
       /\ UpdatePostCall(p, input)
  \/ \E p \in Serial :
       \/ UpdateListingSelectExisting(p)
       \/ UpdateListingUpdate(p)
       \/ DeactivateListingSelectExisting(p)
       \/ DeactivateListingUpdate(p)
       \/ UpdatePostSelectExisting(p)
       \/ UpdatePostUpdate(p)

SpecUpdate == Init /\ [][NextUpdate]_vars

\* C19: when updateListing (updatePost) has ended on an id that was a row
\* when the request arrived, it returned the stored row, every field present
\* in its input holds the value of the input (an explicit null location is
\* stored as null), updated_at is later than before, every absent field and
\* user_id, currency, view_count (parent_post_id, like_count, reply_count)
\* hold what they held, and no other row of any table has changed; on an id
\* that was no row it threw the not-found error and changed nothing.
C19_ExactlyPresentFieldsChange ==
  \A p \in Serial :
    /\ (procs[p].pc = "idle" /\ procs[p].op = "updateListing") =>
         LET input == procs[p].args
             pre == procs[p].pre
         IN IF ListingExists(pre.listings, input.id)
              THEN LET old == pre.listings[input.id]
                       new == listings[input.id]
                   IN /\ Returned(p, "updateListing")
                      /\ procs[p].loc.result = ListingResult(listings, input.id)
                      /\ new.title = IF "title" \in input.present
                                       THEN input.title ELSE old.title
                      /\ new.price = IF "price" \in input.present
                                       THEN ToNumeric(input.price) ELSE old.price
                      /\ new.location = IF "location" \in input.present
                                          THEN Null ELSE old.location
                      /\ new.is_active = IF "is_active" \in input.present
                                           THEN input.is_active ELSE old.is_active
                      /\ new.updated_at > old.updated_at
                      /\ new.user_id = old.user_id
                      /\ new.currency = old.currency
                      /\ new.view_count = old.view_count
                      /\ DOMAIN listings = DOMAIN pre.listings
                      /\ \A l \in DOMAIN listings \ {input.id} :
                           listings[l] = pre.listings[l]
                      /\ [Db EXCEPT !.listings = pre.listings] = pre
              ELSE /\ procs[p].err = Err("Listing not found", input.id)
                   /\ Db = pre
    /\ (procs[p].pc = "idle" /\ procs[p].op = "updatePost") =>
         LET input == procs[p].args
             pre == procs[p].pre
         IN IF PostExists(pre.posts, input.id)
              THEN LET old == pre.posts[input.id]
                       new == posts[input.id]
                   IN /\ Returned(p, "updatePost")
                      /\ procs[p].loc.result = new
                      /\ new.content = IF "content" \in input.present
                                         THEN input.content ELSE old.content
                      /\ new.is_pinned = IF "is_pinned" \in input.present
                                           THEN input.is_pinned ELSE old.is_pinned
                      /\ new.updated_at > old.updated_at
                      /\ new.user_id = old.user_id
                      /\ new.parent_post_id = old.parent_post_id
                      /\ new.like_count = old.like_count
                      /\ new.reply_count = old.reply_count
                      /\ DOMAIN posts = DOMAIN pre.posts
                      /\ \A q \in DOMAIN posts \ {input.id} :
                           posts[q] = pre.posts[q]
                      /\ [Db EXCEPT !.posts = pre.posts] = pre
              ELSE /\ procs[p].err = Err("Post not found", NoId)
                   /\ Db = pre

\* the second of two updateListing requests on one listing carried only the
\* price; the title of the first request and the price of the second are
\* both stored, and the other listing is untouched
C19_Witness ==
  /\ Returned(1, "updateListing")
  /\ procs[1].calls = MaxSerialRequests
  /\ procs[1].args.present = {"price"}
  /\ listings[procs[1].args.id].title = "new"
  /\ listings[procs[1].args.id].price = ToNumeric(2000)
  /\ \E l \in DOMAIN listings : listings[l].title = "old"

\* ------------------------------------------------------------------ C20
\* a listing row without its updated_at
Undated(row) == [row EXCEPT !.updated_at = 0]

\* C20: when deactivateListing(id) has ended on an id that was a listing when
\* the request arrived, active or not, it returned true, the listing is
\* inactive, its other fields but updated_at and every other row are what
\* they were, so that on a listing already inactive the stored state is the
\* same apart from updated_at; on an id that was no listing it threw the
\* not-found error and changed nothing.
C20_DeactivateIsIdempotent ==
  \A p \in Serial :
    (procs[p].pc = "idle" /\ procs[p].op = "deactivateListing") =>
      LET id == procs[p].args[1]
          pre == procs[p].pre
      IN IF ListingExists(pre.listings, id)
           THEN LET old == pre.listings[id]
                    new == listings[id]
                IN /\ Returned(p, "deactivateListing")
                   /\ procs[p].loc.result = TRUE
                   /\ new.is_active = FALSE
                   /\ Undated(new) = Undated([old EXCEPT !.is_active = FALSE])
                   /\ ~old.is_active => Undated(new) = Undated(old)
                   /\ DOMAIN listings = DOMAIN pre.listings
                   /\ \A l \in DOMAIN listings \ {id} :
                        listings[l] = pre.listings[l]
                   /\ [Db EXCEPT !.listings = pre.listings] = pre
           ELSE /\ procs[p].err = Err("Listing not found", id)
                /\ Db = pre

\* deactivateListing returned for the second time on a listing that the
\* first call had deactivated, next to a listing that is still active
C20_Witness ==
  /\ Returned(1, "deactivateListing")
  /\ procs[1].calls = MaxSerialRequests
  /\ ~procs[1].pre.listings[procs[1].args[1]].is_active
  /\ procs[1].pre.listings[procs[1].args[1]].updated_at > 0
  /\ listings[procs[1].args[1]].updated_at
       > procs[1].pre.listings[procs[1].args[1]].updated_at
  /\ \E l \in DOMAIN listings : listings[l].is_active

\* ------------------------------------------------------ the read handlers
\* the username user id registered with: "u" followed by its number
Username(id) == <<"u", ToString(id)>>

\* the names getUserByUsername is asked for
UsernameQueries == {"u", "U", "_"} \X ({"_"} \cup {ToString(u) : u \in UserIds})

\* lower(c) for the characters in use
Lower(c) == IF c = "U" THEN "u" ELSE c

\* value ILIKE pattern for names of equal length: an underscore in the
\* pattern stands for any one character, every other character for itself in
\* either case
ILike(value, pattern) ==
  \A i \in DOMAIN value :
    pattern[i] = "_" \/ Lower(value[i]) = Lower(pattern[i])

\* the rows with the ids in ids, as the handler hands them back
Rows(table, ids) == [rows |-> [i \in ids |-> table[i]]]

ListingRows(lst, ids) == [rows |-> [i \in ids |-> ListingResult(lst, i)]]

TransactionRows(txs, ids) == [rows |-> [i \in ids |-> TransactionResult(txs[i])]]

\* filters.isActive: undefined, true or false
ActiveFilters == {"undefined", "true", "false"}

MatchesActive(row, f) ==
  \/ f = "undefined"
  \/ f = "true" /\ row.is_active
  \/ f = "false" /\ ~row.is_active

\* filters.isRead: undefined, true or false
MatchesRead(row, f) ==
  \/ f = "undefined"
  \/ f = "true" /\ row.is_read
  \/ f = "false" /\ ~row.is_read

\* the search strings drawn for searchListings
SearchQueries == {"", "old", "new"}

ReadOperations ==
  {"getUsers", "getUserById", "getUserByUsername", "getPosts", "getPostById",
   "getPostsByUserId", "getPostReplies", "getListings", "getListingsByUserId",
   "searchListings", "getFollowers", "getFollowing", "getFollowRelationship",
   "getTransactionById", "getTransactionsByUserId",
   "getTransactionsByListingId", "getNotificationsByUserId",
   "getUnreadNotificationCount"}

\* a handler that only selects, run to completion; the model takes a read
\* after a call that is not a read, which is where the store can differ
Read(op, args, err, ret) ==
  /\ Idle
  /\ last.op \notin ReadOperations
  /\ Returns(op, args, err, ret)
  /\ scn' = NoScn
  /\ UNCHANGED <<dbVars, clock, procs>>

GetUsers == Read("getUsers", <<>>, Ok, Rows(users, DOMAIN users))

GetUserById(id) ==
  Read("getUserById", <<id>>, Ok, IF UserExists(users, id) THEN users[id] ELSE NoRow)

\* a usersTable row as a handler hands it back, with its id and username
UserResult(us, u) == [id |-> u, username |-> Username(u), row |-> us[u]]

\* results[0] || null: any one of the rows the pattern matches
GetUserByUsername(username) ==
  LET found == {u \in DOMAIN users : ILike(Username(u), username)} IN
    IF found = {}
      THEN Read("getUserByUsername", username, Ok, NoRow)
      ELSE \E u \in found :
             Read("getUserByUsername", username, Ok, UserResult(users, u))

GetPosts ==
  Read("getPosts", <<>>, Ok,
       Rows(posts, {q \in DOMAIN posts : posts[q].parent_post_id = NoId}))

GetPostById(id) ==
  Read("getPostById", <<id>>, Ok, IF PostExists(posts, id) THEN posts[id] ELSE NoRow)

GetPostsByUserId(userId) ==
  IF ~UserExists(users, userId)
    THEN Read("getPostsByUserId", <<userId>>, Err("User does not exist", userId),
              NoRow)
    ELSE Read("getPostsByUserId", <<userId>>, Ok,
              Rows(posts, {q \in DOMAIN posts : posts[q].user_id = userId}))

GetPostReplies(postId) ==
  IF ~PostExists(posts, postId)
    THEN Read("getPostReplies", <<postId>>, Err("Post does not exist", postId),
              NoRow)
    ELSE Read("getPostReplies", <<postId>>, Ok, Rows(posts, RepliesTo(posts, postId)))

\* getListings with the isActive filter; the other filters select on columns
\* the model does not carry
GetListings(isActive) ==
  Read("getListings", <<isActive>>, Ok,
       ListingRows(listings,
                   {l \in DOMAIN listings : MatchesActive(listings[l], isActive)}))

GetListingsByUserId(userId, isActive) ==
  Read("getListingsByUserId", <<userId, isActive>>, Ok,
       ListingRows(listings,
                   {l \in DOMAIN listings : /\ listings[l].user_id = userId
                                            /\ MatchesActive(listings[l], isActive)}))

\* the active listings whose title holds the search string
SearchListings(searchQuery) ==
  Read("searchListings", <<searchQuery>>, Ok,
       ListingRows(listings,
                   {l \in DOMAIN listings :
                      /\ listings[l].is_active
                      /\ searchQuery = "" \/ listings[l].title = searchQuery}))

\* follows joined with users on follower_id: the users behind the rows
GetFollowers(userId) ==
  Read("getFollowers", <<userId>>, Ok,
       Rows(users, {u \in DOMAIN users : FollowRows(follows, u, userId) > 0}))

GetFollowing(userId) ==
  Read("getFollowing", <<userId>>, Ok,
       Rows(users, {u \in DOMAIN users : FollowRows(follows, userId, u) > 0}))

GetFollowRelationship(followerId, followingId) ==
  Read("getFollowRelationship", <<followerId, followingId>>, Ok,
       IF FollowRows(follows, followerId, followingId) > 0
         THEN [follower_id |-> followerId, following_id |-> followingId]
         ELSE NoRow)

GetTransactionById(id) ==
  Read("getTransactionById", <<id>>, Ok,
       IF id \in DOMAIN transactions THEN TransactionResult(transactions[id])
       ELSE NoRow)

GetTransactionsByUserId(userId) ==
  Read("getTransactionsByUserId", <<userId>>, Ok,
       TransactionRows(transactions,
                       {i \in DOMAIN transactions :
                          \/ transactions[i].buyer_id = userId
                          \/ transactions[i].seller_id = userId}))

GetTransactionsByListingId(listingId) ==
  Read("getTransactionsByListingId", <<listingId>>, Ok,
       TransactionRows(transactions,
                       {i \in DOMAIN transactions :
                          transactions[i].listing_id = listingId}))

\* a getNotificationsByUserId that marks what it returns as read
GetNotificationsByUserIdMarkingRead(userId, isRead) ==
  /\ Idle
  /\ Returns("getNotificationsByUserId", <<userId, isRead>>, Ok,
             Rows(notifications,
                  {i \in DOMAIN notifications :
                     /\ notifications[i].user_id = userId
                     /\ MatchesRead(notifications[i], isRead)}))
  /\ notifications' = MarkAllRead(notifications, userId)
  /\ scn' = NoScn
  /\ UNCHANGED <<users, follows, posts, nextPostId, likes, listings,
                 transactions, clock, procs>>

GetNotificationsByUserId(userId, isRead) ==
  Read("getNotificationsByUserId", <<userId, isRead>>, Ok,
       Rows(notifications,
            {i \in DOMAIN notifications :
               /\ notifications[i].user_id = userId
               /\ MatchesRead(notifications[i], isRead)}))

GetUnreadNotificationCount(userId) ==
  Read("getUnreadNotificationCount", <<userId>>, Ok,
       [count |-> Cardinality({i \in DOMAIN notifications :
                                 /\ notifications[i].user_id = userId
                                 /\ ~notifications[i].is_read})])

\* the reads, on a store that the handlers that write fill in one order:
\* users, then user 1 follows user 2, posts with a reply, likes post 1, lists
\* what user 2 buys, deactivates a listing and at last is notified
NextReads ==
  \/ NoRequestYet /\ RowCount(follows) = 0 /\ CreateUser(MaxTraders)
  \/ NoRequestYet /\ UserExists(users, 2) /\ DOMAIN posts = {} /\ CreateFollow(1, 2)
  \/ \E q \in {NoId} \cup LikedPostIds :
       /\ NoRequestYet
       /\ RowCount(follows) > 0
       /\ RowCount(likes) = 0
       /\ nextPostId <= MaxLikedPosts
       /\ q \in {NoId} \cup DOMAIN posts
       /\ CreatePost(1, q)
  \/ /\ NoRequestYet
     /\ PostExists(posts, 1)
     /\ DOMAIN listings = {}
     /\ CreateLike(1, 1)
  \/ \E pr \in Prices, c \in ListingCurrencies :
       /\ NoRequestYet
       /\ RowCount(likes) > 0
       /\ Len(transactions) = 0
       /\ CreateListing(1, pr, c)
  \/ \E input \in RetryInputs :
       /\ NoRequestYet
       /\ clock < MaxCheckedCalls
       /\ input.buyer_id = 2
       /\ input.seller_id = 1
       /\ \A l \in DOMAIN listings : listings[l].is_active
       /\ input.listing_id = Cardinality(DOMAIN listings)
       /\ CreateTransaction(input)
  \/ \E l \in ListingIds :
       /\ NoRequestYet
       /\ Len(transactions) > 0
       /\ ListingExists(listings, l)
       /\ listings[l].is_active
       /\ DeactivateListing(l)
  \/ \E p \in Serial, input \in CreateNotificationInputs :
       /\ MoreSerial(p)
       /\ \E l \in DOMAIN listings : ~listings[l].is_active
       /\ input.user_id = 1
       /\ CreateNotificationCall(p, input)
  \/ \E p \in Serial :
       /\ MoreSerial(p)
       /\ Len(notifications) > 0
       /\ MarkAllNotificationsAsReadCall(p, 1)
  \/ \E p \in Serial :
       \/ CreateNotificationSelectUser(p)
       \/ CreateNotificationInsert(p)
       \/ MarkAllNotificationsAsReadSelectUser(p)
       \/ MarkAllNotificationsAsReadUpdate(p)
  \/ GetUsers
  \/ \E u \in UserIds : GetUserById(u)
  \/ \E username \in UsernameQueries : GetUserByUsername(username)
  \/ GetPosts
  \/ \E q \in PostIds : GetPostById(q)
  \/ \E u \in UserIds : GetPostsByUserId(u)
  \/ \E q \in PostIds : GetPostReplies(q)
  \/ \E f \in ActiveFilters : GetListings(f)
  \/ \E u \in TraderIds, f \in ActiveFilters : GetListingsByUserId(u, f)
  \/ \E s \in SearchQueries : SearchListings(s)
  \/ \E u \in UserIds : GetFollowers(u)
  \/ \E u \in UserIds : GetFollowing(u)
  \/ \E a \in TraderIds, b \in TraderIds : GetFollowRelationship(a, b)
  \/ \E i \in 1..MaxCalls : GetTransactionById(i)
  \/ \E u \in TraderIds : GetTransactionsByUserId(u)
  \/ \E l \in ListingIds : GetTransactionsByListingId(l)
  \/ \E u \in TraderIds, f \in ActiveFilters : GetNotificationsByUserId(u, f)
  \/ \E u \in TraderIds : GetUnreadNotificationCount(u)

SpecReads == Init /\ [][NextReads]_vars

\* ------------------------------------------------------------------ C18
\* C18: every step in which one of the eighteen read handlers other than
\* getListingById returns, with rows, with null, with an empty list or with
\* a does-not-exist error, leaves every row of every table and the id serial
\* as they were.
C18_ReadsChangeNothing ==
  [][last'.op \in ReadOperations => (Db' = Db /\ nextPostId' = nextPostId)]_vars

\* getNotificationsByUserId returned the unread notification of user 1 while
\* the store holds a follow, a like, a deactivated listing and a transaction,
\* and the notification is still unread
C18_Witness ==
  /\ last.op = "getNotificationsByUserId"
  /\ last.args = <<1, "false">>
  /\ DOMAIN last.ret.rows # {}
  /\ \E i \in DOMAIN notifications :
       notifications[i].user_id = 1 /\ ~notifications[i].is_read
  /\ RowCount(follows) > 0
  /\ RowCount(likes) > 0
  /\ Len(transactions) > 0
  /\ \E l \in DOMAIN listings : ~listings[l].is_active

\* ------------------------------------------------------------------ C21
\* an update that sets is_read = true with no where clause
MarkEveryRowRead(ns, id) ==
  [i \in DOMAIN ns |-> [ns[i] EXCEPT !.is_read = TRUE]]

\* update notifications set is_read = true where id
MarkRead(ns, id) ==
  [i \in DOMAIN ns |-> IF i = id THEN [ns[i] EXCEPT !.is_read = TRUE] ELSE ns[i]]

\* the rows the update of markNotificationAsRead returns
MarkReadReturning(ns, id) == {i \in DOMAIN ns : i = id}

MarkNotificationAsReadCall(p, id) ==
  /\ Call(p, "markNotificationAsRead", <<id>>, "update")
  /\ UNCHANGED <<dbVars, clock>>

\* the one statement: update ... returning, then result.length > 0
MarkNotificationAsReadUpdate(p) ==
  /\ At(p, "markNotificationAsRead", "update")
  /\ notifications' = MarkRead(notifications, procs[p].args[1])
  /\ Return(p, MarkReadReturning(notifications, procs[p].args[1]) # {})
  /\ UNCHANGED <<users, follows, posts, nextPostId, likes, listings,
                 transactions, clock, last, scn>>

\* the ids markNotificationAsRead is asked for: every row and one past them
NotificationIds == 1..(MaxNotifications + 1)

\* the slot takes another notification request
MoreNotificationRequests(p) ==
  procs[p].calls < MaxNotifications + MaxSerialRequests

\* the notification handlers, one request after the other, on the users
\* created beforehand; user MaxUsers is never created
NextNotify ==
  \/ NoRequestYet /\ CreateUser(MaxAuthors)
  \/ \E p \in Serial, input \in CreateNotificationInputs :
       /\ MoreNotificationRequests(p)
       /\ Len(notifications) < MaxNotifications
       /\ CreateNotificationCall(p, input)
  \/ \E p \in Serial, id \in NotificationIds :
       /\ MoreNotificationRequests(p)
       /\ Len(notifications) > 0
       /\ MarkNotificationAsReadCall(p, id)
  \/ \E p \in Serial, u \in UserIds :
       /\ MoreNotificationRequests(p)
       /\ MarkAllNotificationsAsReadCall(p, u)
  \/ \E p \in Serial :
       \/ CreateNotificationSelectUser(p)
       \/ CreateNotificationInsert(p)
       \/ MarkNotificationAsReadUpdate(p)
       \/ MarkAllNotificationsAsReadSelectUser(p)
       \/ MarkAllNotificationsAsReadUpdate(p)
  \/ \E u \in UserIds :
       /\ procs[1].op = "markAllNotificationsAsRead"
       /\ GetUnreadNotificationCount(u)

SpecNotify == Init /\ [][NextNotify]_vars

\* C21: when markNotificationAsRead(id) has ended it did not throw; it
\* returned true exactly when row id existed on arrival, read or not, and
\* then only is_read of that row differs, being true; otherwise nothing
\* differs. When markAllNotificationsAsRead(u) has ended on a missing user it
\* threw does-not-exist and changed nothing; otherwise it returned true,
\* every notification of u is read with its other fields kept, every other
\* row is what it was, and a getUnreadNotificationCount(u) served right
\* after returns 0.
C21_MarkAsRead ==
  \A p \in Serial :
    LET pre == procs[p].pre
        arg == procs[p].args[1]
    IN /\ (procs[p].pc = "idle" /\ procs[p].op = "markNotificationAsRead") =>
            /\ Returned(p, "markNotificationAsRead")
            /\ procs[p].loc.result = (arg \in DOMAIN pre.notifications)
            /\ IF arg \in DOMAIN pre.notifications
                 THEN /\ notifications =
                           [pre.notifications EXCEPT ![arg].is_read = TRUE]
                      /\ notifications[arg].is_read
                 ELSE notifications = pre.notifications
            /\ [Db EXCEPT !.notifications = pre.notifications] = pre
       /\ (procs[p].pc = "idle" /\ procs[p].op = "markAllNotificationsAsRead") =>
            IF ~UserExists(pre.users, arg)
              THEN /\ Threw(p, "markAllNotificationsAsRead",
                            Err("User does not exist", arg))
                   /\ Db = pre
              ELSE /\ Returned(p, "markAllNotificationsAsRead")
                   /\ procs[p].loc.result = TRUE
                   /\ DOMAIN notifications = DOMAIN pre.notifications
                   /\ \A i \in DOMAIN notifications :
                        IF pre.notifications[i].user_id = arg
                          THEN notifications[i] =
                                 [pre.notifications[i] EXCEPT !.is_read = TRUE]
                          ELSE notifications[i] = pre.notifications[i]
                   /\ [Db EXCEPT !.notifications = pre.notifications] = pre
                   /\ (last.op = "getUnreadNotificationCount" /\ last.args = <<arg>>)
                        => last.ret.count = 0

\* markNotificationAsRead returned true on a notification that was already
\* read while another user's notification stays unread
C21_Witness ==
  /\ Returned(1, "markNotificationAsRead")
  /\ procs[1].loc.result = TRUE
  /\ procs[1].args[1] \in DOMAIN procs[1].pre.notifications
  /\ procs[1].pre.notifications[procs[1].args[1]].is_read
  /\ \E i \in DOMAIN notifications :
       /\ notifications[i].user_id # notifications[procs[1].args[1]].user_id
       /\ ~notifications[i].is_read

\* ------------------------------------------------------------------ C22
\* the status strings a caller sends: z.string() accepts any
StatusStrings == {"pending", "completed", "no such status"}

\* what updateTransactionStatus resolves to: a literal built from its arguments
PlaceholderTransaction(id, status, now) ==
  [id |-> id, listing_id |-> 1, buyer_id |-> 1, seller_id |-> 2,
   amount |-> 100000, currency |-> "USD", status |-> status,
   payment_method |-> "credit_card", created_at |-> now]

UpdateTransactionStatusCall(p, id, status) ==
  /\ Call(p, "updateTransactionStatus", <<id, status>>, "resolve")
  /\ UNCHANGED <<dbVars, clock>>

\* return Promise.resolve({...}): no statement is sent to the store
UpdateTransactionStatusResolve(p) ==
  /\ At(p, "updateTransactionStatus", "resolve")
  /\ Return(p, PlaceholderTransaction(procs[p].args[1], procs[p].args[2], clock))
  /\ UNCHANGED <<dbVars, clock, last, scn>>

\* user 2 buys the listing of user 1; then updateTransactionStatus requests
\* are served one after the other, each followed by reads of the row
NextStatus ==
  \/ NoRequestYet /\ CreateUser(MaxTraders)
  \/ \E pr \in Prices, c \in ListingCurrencies :
       NoRequestYet /\ UserExists(users, 2) /\ CreateListing(1, pr, c)
  \/ \E input \in RetryInputs :
       /\ NoRequestYet
       /\ clock < MaxCalls
       /\ input.buyer_id = 2
       /\ input.seller_id = 1
       /\ CreateTransaction(input)
  \/ \E p \in Serial, id \in 1..MaxCalls, status \in StatusStrings :
       /\ MoreSerial(p)
       /\ Len(transactions) > 0
       /\ UpdateTransactionStatusCall(p, id, status)
  \/ \E p \in Serial : UpdateTransactionStatusResolve(p)
  \/ \E id \in 1..MaxCalls : GetTransactionById(id)

SpecStatus == Init /\ [][NextStatus]_vars

\* C22: when updateTransactionStatus(id, s) has returned for a transaction
\* id that exists, the getTransactionById(id) served next returns status s
\* with listing_id, buyer_id, seller_id, amount and currency as they were
\* stored before the update.
C22_StatusIsPersisted ==
  \A p \in Serial :
    (/\ Returned(p, "updateTransactionStatus")
     /\ procs[p].args[1] \in DOMAIN procs[p].pre.transactions
     /\ last.op = "getTransactionById"
     /\ last.args = <<procs[p].args[1]>>) =>
      LET old == TransactionResult(procs[p].pre.transactions[procs[p].args[1]])
      IN /\ last.ret.status = procs[p].args[2]
         /\ last.ret.listing_id = old.listing_id
         /\ last.ret.buyer_id = old.buyer_id
         /\ last.ret.seller_id = old.seller_id
         /\ last.ret.amount = old.amount
         /\ last.ret.currency = old.currency

\* ------------------------------------------------------------------ C23
\* the profile fields updateUserInputSchema carries besides id
ProfileFields == {"display_name", "bio"}

\* updateUser inputs: a field is present or left out; bio is sent as null
UpdateUserInputs ==
  [id : UserIds, present : SUBSET ProfileFields, display_name : {"new"},
   bio : {Null}]

\* input.f || null
OrNull(input, f) ==
  IF f \in input.present /\ input[f] # Null THEN input[f] ELSE Null

\* what updateUser resolves to: a literal built from its input
PlaceholderUser(input) ==
  [id |-> input.id, username |-> "placeholder",
   display_name |-> OrNull(input, "display_name"), bio |-> OrNull(input, "bio"),
   is_verified |-> FALSE, follower_count |-> 0, following_count |-> 0,
   post_count |-> 0]

UpdateUserCall(p, input) ==
  /\ Call(p, "updateUser", input, "resolve")
  /\ UNCHANGED <<dbVars, clock>>

\* return Promise.resolve({...}): no statement is sent to the store
UpdateUserResolve(p) ==
  /\ At(p, "updateUser", "resolve")
  /\ Return(p, PlaceholderUser(procs[p].args))
  /\ UNCHANGED <<dbVars, clock, last, scn>>

\* updateUser requests served one after the other on users 1..MaxAuthors,
\* user 1 following user 2, each followed by reads of the row
NextUser ==
  \/ NoRequestYet /\ CreateUser(MaxAuthors)
  \/ NoRequestYet /\ UserExists(users, 2) /\ CreateFollow(1, 2)
  \/ \E p \in Serial, input \in UpdateUserInputs :
       /\ MoreSerial(p)
       /\ UpdateUserCall(p, input)
  \/ \E p \in Serial : UpdateUserResolve(p)
  \/ \E u \in UserIds : GetUserById(u)

SpecUser == Init /\ [][NextUser]_vars

\* C23: when updateUser has ended on an id that was no user it threw the
\* not-found error naming the id; on a user it returned, the stored row has
\* the present fields of display_name and bio set to what the input carries
\* (null when it carries null) and every other field, is_verified and the
\* three counters included, as before, and every other row is unchanged.
C23_UpdateUser ==
  \A p \in Serial :
    (procs[p].pc = "idle" /\ procs[p].op = "updateUser") =>
      LET input == procs[p].args
          pre == procs[p].pre
      IN IF ~UserExists(pre.users, input.id)
           THEN /\ Threw(p, "updateUser", Err("User not found", input.id))
                /\ Db = pre
           ELSE /\ Returned(p, "updateUser")
                /\ users[input.id] =
                     [f \in DOMAIN pre.users[input.id] |->
                        IF f \in input.present THEN input[f]
                        ELSE pre.users[input.id][f]]
                /\ \A u \in DOMAIN users \ {input.id} : users[u] = pre.users[u]
                /\ [Db EXCEPT !.users = pre.users] = pre

\* ------------------------------------------------------------------ C24
\* C24: when createFollow(a, b) has ended: with a = b it threw the
\* cannot-follow-themselves error, whether or not a is a user; with a # b and
\* a missing it threw does-not-exist naming a, also when b is missing too;
\* with a present and b missing it threw does-not-exist naming b; so with a
\* user missing it never threw the already-exists error.
C24_CreateFollowErrorOrder ==
  \A p \in Serial :
    (procs[p].pc = "idle" /\ procs[p].op = "createFollow") =>
      LET a == procs[p].args[1]
          b == procs[p].args[2]
          us == procs[p].pre.users
      IN /\ a = b =>
              procs[p].err = Err("Users cannot follow themselves", NoId)
         /\ (a # b /\ ~UserExists(us, a)) =>
              procs[p].err = Err("User does not exist", a)
         /\ (a # b /\ UserExists(us, a) /\ ~UserExists(us, b)) =>
              procs[p].err = Err("User does not exist", b)
         /\ (~UserExists(us, a) \/ ~UserExists(us, b)) =>
              procs[p].err.msg # "Follow relationship already exists"

\* createFollow(2, 1) ended naming user 2 while neither user exists
C24_Witness ==
  /\ Threw(1, "createFollow", Err("User does not exist", 2))
  /\ procs[1].args = <<2, 1>>
  /\ DOMAIN procs[1].pre.users = {}

\* ------------------------------------------------------------------ C25
\* two names are the same without regard to letter case
EqualIgnoringCase(x, y) == \A i \in DOMAIN x : Lower(x[i]) = Lower(y[i])

\* C25: when getUserByUsername(name) has returned, name being made of
\* letters, digits and underscores like every stored username, it returned a
\* user exactly when some stored username equals name without regard to
\* letter case, and the username of that user equals name in that sense;
\* otherwise it returned null.
C25_UsernameLookupIgnoresCaseOnly ==
  last.op = "getUserByUsername" =>
    LET same == {u \in DOMAIN last.pre.users :
                   EqualIgnoringCase(Username(u), last.args)}
    IN IF same = {}
         THEN last.ret = NoRow
         ELSE /\ last.ret # NoRow
              /\ EqualIgnoringCase(last.ret.username, last.args)

\* ------------------------------------------------------------------ C26
\* clock ticks left: one more than the createTransaction calls, for the
\* request that changes the listing between them
MoreTicks == clock < MaxCalls + 1

\* user 2 buys the listing of user 1, the listing is then deactivated or
\* updated in its price or activity by one request, and user 2 sends the
\* request again
NextRetry ==
  \/ NoRequestYet /\ CreateUser(MaxTraders)
  \/ \E pr \in Prices, c \in ListingCurrencies :
       NoRequestYet /\ UserExists(users, 2) /\ CreateListing(1, pr, c)
  \/ \E input \in TransactionInputs :
       /\ MoreTicks
       /\ input.buyer_id = 2
       /\ input.seller_id = 1
       /\ CreateTransaction(input)
  \/ \E p \in Serial, l \in ListingIds :
       /\ NoRequestYet
       /\ MoreTicks
       /\ Len(transactions) > 0
       /\ DeactivateListingCall(p, l)
  \/ \E p \in Serial, input \in UpdateListingInputs :
       /\ NoRequestYet
       /\ MoreTicks
       /\ Len(transactions) > 0
       /\ input.id \in ListingIds
       /\ input.present \subseteq PricedFields
       /\ input.present # {}
       /\ UpdateListingCall(p, input)
  \/ \E p \in Serial :
       \/ DeactivateListingSelectExisting(p)
       \/ DeactivateListingUpdate(p)
       \/ UpdateListingSelectExisting(p)
       \/ UpdateListingUpdate(p)

SpecRetry == Init /\ [][NextRetry]_vars

\* the pending rows that a request with this input left: same listing, buyer,
\* seller, amount and currency
PendingLike(txs, input) ==
  {i \in PendingFor(txs, input.listing_id, input.buyer_id) :
     /\ txs[i].seller_id = input.seller_id
     /\ txs[i].amount = ToNumeric(input.amount)
     /\ txs[i].currency = input.currency}

\* C26: when createTransaction has ended on an input for which a pending
\* transaction of the same input was already stored: if the listing had
\* been deactivated by then it threw the not-active error, if the listing was
\* active but its price no longer within 0.01 of the amount it threw the
\* amount-mismatch error, and in both cases it returned no transaction and
\* the transactions are what they were.
C26_ChecksBeforePendingLookup ==
  (/\ last.op = "createTransaction"
   /\ PendingLike(last.pre.transactions, last.args) # {}) =>
    LET listing == last.pre.listings[last.args.listing_id] IN
      /\ ~listing.is_active =>
            /\ last.err = Err("Listing is not active", last.args.listing_id)
            /\ last.ret = NoRow
            /\ transactions = last.pre.transactions
      /\ (/\ listing.is_active
          /\ Abs(last.args.amount - ParseFloat(listing.price)) > Tolerance) =>
            /\ last.err = Err("Transaction amount must match listing price", NoId)
            /\ last.ret = NoRow
            /\ transactions = last.pre.transactions

\* the repeated request failed on the amount after updateListing changed the
\* price of the listing that has a pending transaction
C26_Witness ==
  /\ last.op = "createTransaction"
  /\ PendingLike(last.pre.transactions, last.args) # {}
  /\ last.err = Err("Transaction amount must match listing price", NoId)
  /\ Returned(1, "updateListing")
  /\ listings[last.args.listing_id].is_active
  /\ transactions = last.pre.transactions

\* ------------------------------------------------------------------ C27
\* deleteFollow and deleteLike requests whose statements interleave, on a
\* store where user 1 follows user 2 and likes its own post 1, every counter
\* matching its rows
NextConcDeletes ==
  \/ NoRequestYet /\ CreateUser(MaxAuthors)
  \/ NoRequestYet /\ UserExists(users, 2) /\ CreateFollow(1, 2)
  \/ NoRequestYet /\ UserExists(users, 1) /\ nextPostId <= MaxLikedPosts
       /\ CreatePost(1, NoId)
  \/ NoRequestYet /\ PostExists(posts, 1) /\ CreateLike(1, 1)
  \/ \E p \in Procs :
       /\ procs[p].calls < MaxRequests
       /\ RowCount(follows) > 0
       /\ DeleteFollowCall(p, 1, 2)
  \/ \E p \in Procs :
       /\ procs[p].calls < MaxRequests
       /\ RowCount(likes) > 0
       /\ DeleteLikeCall(p, 1, 1)
  \/ \E p \in Procs :
       \/ DeleteFollowSelectExisting(p)
       \/ DeleteFollowDelete(p)
       \/ DeleteFollowUpdateFollowing(p)
       \/ DeleteFollowUpdateFollower(p)
       \/ DeleteLikeSelectExisting(p)
       \/ DeleteLikeTransaction(p)

SpecConcDeletes == Init /\ [][NextConcDeletes]_vars

\* C27: in every reachable state, with deleteFollow requests on one pair and
\* deleteLike requests on one pair interleaving, follower_count,
\* following_count and post_count of every user, like_count and reply_count
\* of every post and view_count of every listing are at least 0.
C27_CountersNonNegative ==
  /\ \A u \in DOMAIN users :
       /\ users[u].follower_count >= 0
       /\ users[u].following_count >= 0
       /\ users[u].post_count >= 0
  /\ \A q \in DOMAIN posts :
       /\ posts[q].like_count >= 0
       /\ posts[q].reply_count >= 0
  /\ \A l \in DOMAIN listings : listings[l].view_count >= 0

\* ------------------------------------------------------------------ C28
\* the buyer's requests arrive in slot 1, the seller's in slot 2
Buyer == {1}
Seller == {2}

\* a createTransaction of user 2 on the listing of user 1 in flight together
\* with a deactivateListing, or an updateListing that sets is_active
NextConcListing ==
  \/ NoRequestYet /\ CreateUser(MaxTraders)
  \/ \E pr \in Prices, c \in ListingCurrencies :
       NoRequestYet /\ UserExists(users, 2) /\ CreateListing(1, pr, c)
  \/ \E p \in Buyer, input \in RetryInputs :
       /\ procs[p].calls < MaxRequests
       /\ DOMAIN listings # {}
       /\ input.buyer_id = 2
       /\ input.seller_id = 1
       /\ CreateTransactionCall(p, input)
  \/ \E p \in Seller, l \in ListingIds :
       /\ procs[p].calls < MaxRequests
       /\ DOMAIN listings # {}
       /\ DeactivateListingCall(p, l)
  \/ \E p \in Seller, input \in UpdateListingInputs :
       /\ procs[p].calls < MaxRequests
       /\ DOMAIN listings # {}
       /\ input.id \in ListingIds
       /\ input.present = {"is_active"}
       /\ UpdateListingCall(p, input)
  \/ \E p \in Procs :
       \/ CreateTransactionSelectListing(p)
       \/ CreateTransactionSelectBuyer(p)
       \/ CreateTransactionSelectSeller(p)
       \/ CreateTransactionSelectPending(p)
       \/ CreateTransactionInsert(p)
       \/ DeactivateListingSelectExisting(p)
       \/ DeactivateListingUpdate(p)
       \/ UpdateListingSelectExisting(p)
       \/ UpdateListingUpdate(p)

SpecConcListing == Init /\ [][NextConcListing]_vars

\* C28: every step that inserts a Transaction row inserts it for a listing
\* whose is_active is true at that moment, whatever deactivateListing or
\* updateListing did since createTransaction read the listing.
C28_NoRowForInactiveListing ==
  [][Len(transactions') > Len(transactions) =>
       listings[transactions'[Len(transactions')].listing_id].is_active]_vars

\* ------------------------------------------------------------------ C29
\* C29 as stated: every createTransaction that returned hands back a
\* transaction with the listing, buyer, seller and currency of its input and
\* an amount within 0.01 of the input amount, whatever createTransaction and
\* updateListing calls came before.
C29_ReturnedMatchesInput ==
  (last.op = "createTransaction" /\ last.err = Ok) =>
    /\ last.ret.listing_id = last.args.listing_id
    /\ last.ret.buyer_id = last.args.buyer_id
    /\ last.ret.seller_id = last.args.seller_id
    /\ last.ret.currency = last.args.currency
    /\ Abs(last.ret.amount - last.args.amount) <= Tolerance

\* C29 amended: every createTransaction that returned hands back a
\* transaction with the listing, buyer, seller and currency of its input;
\* when the call inserted the row its amount is within 0.01 of the input
\* amount, and when it did not, the transaction is a pending row of the
\* listing and buyer that was stored before the call, with that row's amount.
C29_ReturnedMatchesInputOrPending ==
  (last.op = "createTransaction" /\ last.err = Ok) =>
    /\ last.ret.listing_id = last.args.listing_id
    /\ last.ret.buyer_id = last.args.buyer_id
    /\ last.ret.seller_id = last.args.seller_id
    /\ last.ret.currency = last.args.currency
    /\ IF Len(transactions) > Len(last.pre.transactions)
         THEN Abs(last.ret.amount - last.args.amount) <= Tolerance
         ELSE \E i \in PendingFor(last.pre.transactions, last.args.listing_id,
                                  last.args.buyer_id) :
                last.ret = TransactionResult(last.pre.transactions[i])

\* after updateListing raised the price, a request for the new price was
\* handed the pending transaction stored at the old price
C29_Witness ==
  /\ last.op = "createTransaction"
  /\ last.err = Ok
  /\ Returned(1, "updateListing")
  /\ transactions = last.pre.transactions
  /\ Abs(last.ret.amount - last.args.amount) > Tolerance
  /\ Abs(last.args.amount - ParseFloat(listings[last.args.listing_id].price))
       <= Tolerance

\* ------------------------------------------------------------------ C30
\* the deletePost requests arrive in slot 1, the requests that refer to a
\* post in slot 2
Deleter == {1}
Referrer == {2}

\* deletePost in flight together with a createLike or a reply to the same
\* posts of user 1, post 1 having a reply or a like from the start or not
NextConcRefs ==
  \/ NoRequestYet /\ CreateUser(MaxAuthors)
  \/ /\ NoRequestYet
     /\ UserExists(users, 1)
     /\ nextPostId <= MaxLikedPosts
     /\ CreatePost(1, NoId)
  \/ /\ NoRequestYet
     /\ nextPostId > MaxLikedPosts
     /\ nextPostId <= MaxPosts
     /\ CreatePost(1, 1)
  \/ NoRequestYet /\ PostExists(posts, 1) /\ CreateLike(1, 1)
  \/ \E p \in Deleter, q \in LikedPostIds :
       /\ procs[p].calls < MaxRequests
       /\ DOMAIN posts # {}
       /\ DeletePostCall(p, q)
  \/ \E p \in Referrer, q \in LikedPostIds :
       /\ procs[p].calls < MaxRequests
       /\ DOMAIN posts # {}
       /\ CreateLikeCall(p, 1, q)
  \/ \E p \in Referrer, q \in LikedPostIds :
       /\ procs[p].calls < MaxRequests
       /\ DOMAIN posts # {}
       /\ CreatePostCall(p, 1, q)
  \/ \E p \in Procs :
       \/ DeletePostSelectExisting(p)
       \/ DeletePostDelete(p)
       \/ DeletePostCount(p)
       \/ DeletePostUpdateUser(p)
       \/ CreateLikeSelectUser(p)
       \/ CreateLikeSelectPost(p)
       \/ CreateLikeSelectExisting(p)
       \/ CreateLikeTransaction(p)
       \/ CreatePostSelectUser(p)
       \/ CreatePostSelectParent(p)
       \/ CreatePostInsert(p)
       \/ CreatePostUpdateUser(p)
       \/ CreatePostSelectParentAgain(p)
       \/ CreatePostUpdateParent(p)

SpecConcRefs == Init /\ [][NextConcRefs]_vars

\* every Like row and every reply refers to a post that exists
ReferencesResolve(ps, ls) ==
  /\ \A pr \in DOMAIN ls : ls[pr] > 0 => PostExists(ps, pr[2])
  /\ \A q \in DOMAIN ps :
       ps[q].parent_post_id # NoId => PostExists(ps, ps[q].parent_post_id)

\* C30: every step in which deletePost issues its delete on a post that a
\* reply or a Like row refers to ends the request with the store's
\* foreign-key error and leaves every row and counter as it was; and after
\* every step every Like row's post_id and every non-null parent_post_id
\* refers to an existing post.
C30_ReferencedPostIsNotDeleted ==
  [][/\ \A p \in Procs :
          (/\ At(p, "deletePost", "delete")
           /\ procs'[p] # procs[p]
           /\ \/ RepliesTo(posts, procs[p].args[1]) # {}
              \/ LikesOfPost(likes, procs[p].args[1]) > 0) =>
            /\ procs'[p].pc = "idle"
            /\ procs'[p].err = Err("foreign key violation", NoId)
            /\ Db' = Db
     /\ ReferencesResolve(posts', likes')]_vars

\* deletePost ended with the foreign-key error on post 1, which exists and
\* has the like that a createLike in flight at the same time inserted
C30_Witness ==
  /\ Threw(1, "deletePost", Err("foreign key violation", NoId))
  /\ procs[1].args = <<1>>
  /\ PostExists(posts, 1)
  /\ LikesOfPost(procs[1].pre.likes, 1) = 0
  /\ RepliesTo(procs[1].pre.posts, 1) = {}
  /\ LikesOfPost(likes, 1) > 0

====
